---- MODULE Spec2Model ----
(***************************************************************************)
(* Model of the configuration command group of the demo CLI                *)
(* (src/src/commands/config.ts).  Each CLI invocation is one process that  *)
(* runs one command handler from start to end; the only state that lives   *)
(* between invocations is the content of config.json and of the export     *)
(* file.  One action of the model is one invocation.                       *)
(*                                                                         *)
(* The other command groups (user, task, file, profile, system monitor)    *)
(* are modelled further down, each under a specification of its own: they  *)
(* share no state with config nor with each other.                         *)
(***************************************************************************)
EXTENDS Integers, Sequences, FiniteSets, TLC

VARIABLES
    file,        \* content of config.json (CONFIG_FILE)
    exportFile,  \* content of the file written by `config export`
    out,         \* what the last invocation was given and what it reported
    ops,         \* number of invocations so far
    vin,         \* input of a direct call of validateConfigValue
    vout,        \* result of that call
    users,       \* content of users.json (USERS_FILE)
    tasks,       \* content of tasks.json (TASKS_FILE)
    disk,        \* the files the file commands can reach, by resolved path
    profiles,    \* the Map of profile.ts as the last process left it at exit
    monitor,     \* the process that runs `system monitor`
    procs        \* config invocations that run at the same time

vars == <<file, exportFile, out, ops, vin, vout,
          users, tasks, disk, profiles, monitor, procs>>

\* what the config commands (one at a time) never touch
elsewhere == <<users, tasks, disk, profiles, monitor, procs>>

(***************************************************************************)
(* JavaScript values.  Every value is a record of one shape so that any    *)
(* two values can be compared: t is the result of typeof except for null,  *)
(* s the string, n and d the number n + d/10 (d a digit), b the boolean.   *)
(* A number whose s is "NaN" is NaN.                                       *)
(***************************************************************************)
StrV(str) == [t |-> "string", s |-> str, n |-> 0, d |-> 0, b |-> FALSE]
NumV(i) == [t |-> "number", s |-> "", n |-> i, d |-> 0, b |-> FALSE]
FracV(i, tenth) == [t |-> "number", s |-> "", n |-> i, d |-> tenth, b |-> FALSE]
NaNV == [t |-> "number", s |-> "NaN", n |-> 0, d |-> 0, b |-> FALSE]
BoolV(bool) == [t |-> "boolean", s |-> "", n |-> 0, d |-> 0, b |-> bool]
NullV == [t |-> "null", s |-> "", n |-> 0, d |-> 0, b |-> FALSE]
UndefinedV == [t |-> "undefined", s |-> "", n |-> 0, d |-> 0, b |-> FALSE]

IsNaN(v) == v.t = "number" /\ v.s = "NaN"

\* Number.isInteger(val)
NumberIsInteger(v) == v.t = "number" /\ v.s = "" /\ v.d = 0

\* val > 0 and val <= bound on numbers (NaN compares false with everything)
NumGtZero(v) == v.t = "number" /\ v.s = "" /\ (v.n > 0 \/ (v.n = 0 /\ v.d > 0))
NumLeq(v, bound) ==
    v.t = "number" /\ v.s = "" /\ (v.n < bound \/ (v.n = bound /\ v.d = 0))

(***************************************************************************)
(* Strings are read character by character, as the JavaScript conversions  *)
(* Number(), parseFloat() and parseInt() read them.                        *)
(***************************************************************************)
WhiteSpace == {" "}
Digits == {"0", "1", "2", "3", "4", "5", "6", "7", "8", "9"}
HexLetters == {"a", "b", "c", "d", "e", "f", "A", "B", "C", "D", "E", "F"}

DigitVal(c) ==
    CASE c = "0" -> 0 [] c = "1" -> 1 [] c = "2" -> 2 [] c = "3" -> 3
      [] c = "4" -> 4 [] c = "5" -> 5 [] c = "6" -> 6 [] c = "7" -> 7
      [] c = "8" -> 8 [] c = "9" -> 9
      [] c \in {"a", "A"} -> 10 [] c \in {"b", "B"} -> 11
      [] c \in {"c", "C"} -> 12 [] c \in {"d", "D"} -> 13
      [] c \in {"e", "E"} -> 14 [] c \in {"f", "F"} -> 15

RECURSIVE TrimLeft(_)
TrimLeft(str) ==
    IF str # "" /\ Head(str) \in WhiteSpace THEN TrimLeft(Tail(str)) ELSE str

RECURSIVE TrimRight(_)
TrimRight(str) ==
    IF str # "" /\ SubSeq(str, Len(str), Len(str)) \in WhiteSpace
    THEN TrimRight(SubSeq(str, 1, Len(str) - 1))
    ELSE str

\* number of leading characters of str that are in the set chars
RECURSIVE SpanLen(_, _)
SpanLen(str, chars) ==
    IF str # "" /\ Head(str) \in chars THEN 1 + SpanLen(Tail(str), chars) ELSE 0

Drop(str, k) == SubSeq(str, k + 1, Len(str))
Take(str, k) == SubSeq(str, 1, k)
StartsWith(str, prefix) ==
    Len(str) >= Len(prefix) /\ Take(str, Len(prefix)) = prefix

StripSign(str) ==
    IF str # "" /\ Head(str) \in {"+", "-"} THEN Tail(str) ELSE str

\* value of a string of digits in the given radix
RECURSIVE DigitsValue(_, _, _)
DigitsValue(str, radix, acc) ==
    IF str = "" THEN acc
    ELSE DigitsValue(Tail(str), radix, acc * radix + DigitVal(Head(str)))

\* str is an unsigned decimal literal: digits, an optional fraction, an
\* optional exponent, with a digit before or after the point
IsUnsignedDecimal(str) ==
    LET ip == SpanLen(str, Digits)
        r1 == Drop(str, ip)
        hasPoint == r1 # "" /\ Head(r1) = "."
        fp == IF hasPoint THEN SpanLen(Tail(r1), Digits) ELSE 0
        r2 == IF hasPoint THEN Drop(Tail(r1), fp) ELSE r1
        ex == IF r2 # "" /\ Head(r2) \in {"e", "E"} THEN StripSign(Tail(r2)) ELSE ""
    IN  /\ ip + fp > 0
        /\ \/ r2 = ""
           \/ /\ Head(r2) \in {"e", "E"}
              /\ ex # ""
              /\ SpanLen(ex, Digits) = Len(ex)

\* str is a 0x, 0o or 0b literal
IsNonDecimalLiteral(str) ==
    /\ Len(str) > 2
    /\ \/ /\ Take(str, 2) \in {"0x", "0X"}
          /\ SpanLen(Drop(str, 2), Digits \cup HexLetters) = Len(str) - 2
       \/ /\ Take(str, 2) \in {"0o", "0O"}
          /\ SpanLen(Drop(str, 2), {"0", "1", "2", "3", "4", "5", "6", "7"}) = Len(str) - 2
       \/ /\ Take(str, 2) \in {"0b", "0B"}
          /\ SpanLen(Drop(str, 2), {"0", "1"}) = Len(str) - 2

\* isNaN(Number(str)): the whole trimmed string must be a numeric literal;
\* the empty string converts to 0
NumberIsNaN(str) ==
    LET u == TrimRight(TrimLeft(str))
    IN  ~ \/ u = ""
          \/ StripSign(u) = "Infinity"
          \/ IsUnsignedDecimal(StripSign(u))
          \/ IsNonDecimalLiteral(u)

\* isNaN(parseFloat(str)): some prefix after leading white space must be a
\* decimal literal
ParseFloatIsNaN(str) ==
    LET u == StripSign(TrimLeft(str))
    IN  ~ \/ StartsWith(u, "Infinity")
          \/ u # "" /\ Head(u) \in Digits
          \/ Len(u) >= 2 /\ Head(u) = "." /\ Head(Tail(u)) \in Digits

\* parseInt(str) with no radix: radix 16 after 0x, else 10; the leading
\* digits, NaN when there is none
ParseInt(str) ==
    LET t == TrimLeft(str)
        neg == t # "" /\ Head(t) = "-"
        u == StripSign(t)
        hex == StartsWith(u, "0x") \/ StartsWith(u, "0X")
        body == IF hex THEN Drop(u, 2) ELSE u
        k == SpanLen(body, IF hex THEN Digits \cup HexLetters ELSE Digits)
        mag == DigitsValue(Take(body, k), IF hex THEN 16 ELSE 10, 0)
    IN  IF k = 0 THEN NaNV ELSE NumV(IF neg THEN 0 - mag ELSE mag)

(***************************************************************************)
(* The schema: DEFAULT_CONFIG and the keys it defines.                     *)
(***************************************************************************)
DEFAULT_CONFIG ==
    [theme |-> StrV("default"),
     colorOutput |-> BoolV(TRUE),
     dateFormat |-> StrV("locale"),
     defaultPriority |-> StrV("medium"),
     autoSave |-> BoolV(TRUE),
     maxItems |-> NumV(100),
     apiUrl |-> StrV("https://api.example.com"),
     timeout |-> NumV(5000),
     language |-> StrV("en"),
     debug |-> BoolV(FALSE)]

SchemaKeys == DOMAIN DEFAULT_CONFIG

\* Property names every object literal inherits from Object.prototype: a
\* lookup obj[key] or a test `key in obj` finds them on any object.  The model
\* carries one of them, a function that returns a truthy value when called.
InheritedKeys == {"constructor"}
FunctionV == [t |-> "function", s |-> "", n |-> 0, d |-> 0, b |-> FALSE]

EmptyObj == [k \in {} |-> UndefinedV]

\* obj[key] on a plain object
Lookup(obj, key) ==
    IF key \in DOMAIN obj THEN obj[key]
    ELSE IF key \in InheritedKeys THEN FunctionV
    ELSE UndefinedV

\* key in obj
HasKey(obj, key) == key \in DOMAIN obj \/ key \in InheritedKeys

\* { ...a, ...b }
Spread(a, b) ==
    [k \in DOMAIN a \cup DOMAIN b |-> IF k \in DOMAIN b THEN b[k] ELSE a[k]]

\* obj[key] = value
Assign(obj, key, value) ==
    [k \in DOMAIN obj \cup {key} |-> IF k = key THEN value ELSE obj[k]]

(***************************************************************************)
(* File contents.  A file is missing, holds text that JSON.parse rejects   *)
(* ("corrupt"), or holds the JSON text of null, of a number or boolean     *)
(* ("scalar"), or of an object whose members are obj.  The order of the    *)
(* members of an object is not modelled.                                   *)
(***************************************************************************)
Missing == [kind |-> "missing", obj |-> EmptyObj]
Corrupt == [kind |-> "corrupt", obj |-> EmptyObj]
JsonNull == [kind |-> "null", obj |-> EmptyObj]
JsonScalar == [kind |-> "scalar", obj |-> EmptyObj]
JsonObject(o) == [kind |-> "object", obj |-> o]

\* fs.readFile followed by JSON.parse throws
ReadThrows(f) == f.kind \in {"missing", "corrupt"}

\* the own enumerable members of a parsed value, as the spread operator and
\* Object.entries see them (none for a number, a boolean or null)
OwnMembers(f) == IF f.kind = "object" THEN f.obj ELSE EmptyObj

\* a slip in the serialisation: booleans written as the strings String()
\* gives
JSONstringify_BooleansQuoted(o) ==
    JsonObject([k \in {j \in DOMAIN o : o[j].t \notin {"undefined", "function"}} |->
                   IF IsNaN(o[k]) THEN NullV
                   ELSE IF o[k].t = "boolean"
                   THEN StrV(IF o[k].b THEN "true" ELSE "false")
                   ELSE o[k]])

\* JSON.stringify(value, null, 2) of an object: members holding undefined or
\* a function are left out, NaN is written as null
JSONstringify(o) ==
    JsonObject([k \in {j \in DOMAIN o : o[j].t \notin {"undefined", "function"}} |->
                   IF IsNaN(o[k]) THEN NullV ELSE o[k]])

\* a slip in loadConfig: the spread the other way round, defaults last
loadConfig_DefaultsLast(f) ==
    IF ReadThrows(f) THEN DEFAULT_CONFIG
    ELSE Spread(OwnMembers(f), DEFAULT_CONFIG)

\* a slip in loadConfig: the catch returns an empty document
loadConfig_EmptyOnFailure(f) ==
    IF ReadThrows(f) THEN EmptyObj
    ELSE Spread(DEFAULT_CONFIG, OwnMembers(f))

loadConfig(f) ==
    IF ReadThrows(f) THEN DEFAULT_CONFIG
    ELSE Spread(DEFAULT_CONFIG, OwnMembers(f))

saveConfig(config) == JSONstringify(config)

(***************************************************************************)
(* validateConfigValue                                                      *)
(***************************************************************************)
ThemeValues == {"default", "dark", "light", "rainbow"}
DateFormatValues == {"locale", "iso", "us", "eu"}
PriorityValues == {"low", "medium", "high", "urgent"}
LanguageValues == {"en", "es", "fr", "de", "it"}
MaxItemsLimit == 1000

\* [...].includes(val)
Includes(list, val) == val.t = "string" /\ val.s \in list

\* validators[key](val), for the keys the validators literal defines
validators(key, val) ==
    CASE key = "theme" -> Includes(ThemeValues, val)
      [] key = "colorOutput" -> val.t = "boolean"
      [] key = "dateFormat" -> Includes(DateFormatValues, val)
      [] key = "defaultPriority" -> Includes(PriorityValues, val)
      [] key = "autoSave" -> val.t = "boolean"
      [] key = "maxItems" ->
            NumberIsInteger(val) /\ NumGtZero(val) /\ NumLeq(val, MaxItemsLimit)
      [] key = "apiUrl" -> val.t = "string" /\ Len(val.s) > 0
      [] key = "timeout" -> NumberIsInteger(val) /\ NumGtZero(val)
      [] key = "language" -> Includes(LanguageValues, val)
      [] key = "debug" -> val.t = "boolean"

ValidatorKeys ==
    {"theme", "colorOutput", "dateFormat", "defaultPriority", "autoSave",
     "maxItems", "apiUrl", "timeout", "language", "debug"}

suggestions ==
    [theme |-> "Must be one of: default, dark, light, rainbow",
     colorOutput |-> "Must be true or false",
     dateFormat |-> "Must be one of: locale, iso, us, eu",
     defaultPriority |-> "Must be one of: low, medium, high, urgent",
     autoSave |-> "Must be true or false",
     maxItems |-> "Must be a number between 1 and 1000",
     apiUrl |-> "Must be a valid URL string",
     timeout |-> "Must be a positive number",
     language |-> "Must be one of: en, es, fr, de, it",
     debug |-> "Must be true or false"]

\* the conversion of a string value before it is validated
ConvertValue(value) ==
    IF value.t # "string" THEN value
    ELSE IF value.s = "true" THEN BoolV(TRUE)
    ELSE IF value.s = "false" THEN BoolV(FALSE)
    ELSE IF ~NumberIsNaN(value.s) /\ ~ParseFloatIsNaN(value.s) THEN ParseInt(value.s)
    ELSE value

Invalid(msg) == [valid |-> FALSE, value |-> UndefinedV, message |-> msg]
Valid(value) == [valid |-> TRUE, value |-> value, message |-> ""]

\* validators[key] finds the validator of a schema key, and on any other key
\* whatever Object.prototype holds under that name: the inherited function
\* is called like a validator and its result is truthy
validateConfigValue(key, value) ==
    IF key \notin ValidatorKeys /\ key \notin InheritedKeys
    THEN Invalid("Unknown configuration key: " \o key)
    ELSE IF key \in ValidatorKeys
    THEN IF validators(key, ConvertValue(value))
         THEN Valid(ConvertValue(value))
         ELSE Invalid(suggestions[key])
    ELSE Valid(ConvertValue(value))

(***************************************************************************)
(* Bounds and inputs.                                                      *)
(***************************************************************************)
\* commands run one after another in one behaviour
MaxOps == 2

AllKeys == SchemaKeys \cup InheritedKeys \cup {"customKey"}

\* keys and values typed on the command line of set, get and reset
ArgKeys == {"theme", "maxItems", "customKey", "constructor"}
ArgValues == {"dark", "150", ".5"}

\* documents a user can have in config.json before the first command
Doc(o) == JsonObject(o)
StoredDocs ==
    {Doc([theme |-> StrV("dark")]),
     Doc([maxItems |-> NumV(150), debug |-> BoolV(TRUE)]),
     Doc(Spread(DEFAULT_CONFIG, [theme |-> StrV("light"), timeout |-> NumV(30)]))}

\* files a user can name in `config import`
ImportDocs ==
    {Doc([theme |-> StrV("dark"), colorOutput |-> StrV("notabool")]),
     Doc([theme |-> StrV("rainbow"), maxItems |-> StrV("150")]),
     Doc([language |-> StrV("fr"), debug |-> BoolV(TRUE)]),
     Doc([customKey |-> StrV("x"), maxItems |-> FracV(1, 5)]),
     Doc([constructor |-> StrV("x")])}
ImportFiles == ImportDocs \cup {Missing, Corrupt, JsonNull, JsonScalar}

(***************************************************************************)
(* What an invocation reports.  Every report has the same fields; a field  *)
(* a command does not use keeps the value it has in Idle.  exitCode is the *)
(* exit status of the process: no handler of config sets process.exitCode  *)
(* or calls process.exit, each prints and returns, so the process ends     *)
(* with status 0 unless the command-line parser stopped it.  paths is the  *)
(* set of resolved paths a file command handed to fs.                      *)
(***************************************************************************)
Idle ==
    [cmd |-> "none", status |-> "none", key |-> "", raw |-> UndefinedV,
     force |-> FALSE, merge |-> FALSE, confirm |-> FALSE, modified |-> FALSE,
     source |-> Missing, doc |-> EmptyObj,
     oldValue |-> UndefinedV, newValue |-> UndefinedV,
     errors |-> {}, imported |-> 0, total |-> 0, wrote |-> FALSE,
     exitCode |-> 0, paths |-> {}]

Report(cmd, status) == [Idle EXCEPT !.cmd = cmd, !.status = status]

\* one more invocation of a config command starts
Invoke == ops < MaxOps /\ ops' = ops + 1 /\ UNCHANGED elsewhere

\* before any other command group has run
ElsewhereIdle ==
    /\ users = << >>
    /\ tasks = << >>
    /\ disk = << >>
    /\ profiles = << >>
    /\ monitor = << >>
    /\ procs = << >>

NoInput == [key |-> "", value |-> UndefinedV]

Init ==
    /\ file \in {Missing, Corrupt} \cup StoredDocs
    /\ exportFile = Missing
    /\ out = Idle
    /\ ops = 0
    /\ vin = NoInput
    /\ vout = Invalid("")
    /\ ElsewhereIdle

\* config get [key]: the whole document, or one key
Get(key) ==
    LET config == loadConfig(file)
        r == [Report("get", "ok") EXCEPT !.key = key, !.doc = config]
    IN  /\ Invoke
        /\ out' = IF key = "" THEN r
                  ELSE IF ~HasKey(config, key) THEN [r EXCEPT !.status = "not-found"]
                  ELSE [r EXCEPT !.newValue = Lookup(config, key)]
        /\ UNCHANGED <<file, exportFile, vin, vout>>

\* config list
List ==
    /\ Invoke
    /\ out' = [Report("list", "ok") EXCEPT !.doc = loadConfig(file)]
    /\ UNCHANGED <<file, exportFile, vin, vout>>

\* a slip in set: the result of the validation is not looked at
SetRejected_Never(force, validation) == FALSE

\* set returns before it writes: validation ran and failed
SetRejected(force, validation) == ~force /\ ~validation.valid

\* config set <key> <value> [--force]
Set(key, value, force) ==
    LET config == loadConfig(file)
        validation == validateConfigValue(key, StrV(value))
        stored == IF force THEN StrV(value) ELSE validation.value
        r == [Report("set", "ok") EXCEPT !.key = key, !.raw = StrV(value),
                                         !.force = force]
    IN  /\ Invoke
        /\ IF SetRejected(force, validation)
           THEN /\ out' = [r EXCEPT !.status = "validation-error",
                                    !.errors = {validation.message}]
                /\ file' = file
           ELSE /\ file' = saveConfig(Assign(config, key, stored))
                /\ out' = [r EXCEPT !.oldValue = Lookup(config, key),
                                    !.newValue = stored, !.wrote = TRUE]
        /\ UNCHANGED <<exportFile, vin, vout>>

\* a slip in reset: the answer to the prompt is not looked at
ResetCancelled_Never(force, confirm) == FALSE

\* reset returns before it writes: it prompted and the answer was no
ResetCancelled(force, confirm) == ~force /\ ~confirm

\* a slip in reset: the defaults are spread over the loaded document
ResetDocument_OverLoaded(config) == Spread(config, DEFAULT_CONFIG)

\* what a reset without --key hands to saveConfig
ResetDocument(config) == DEFAULT_CONFIG

\* config reset [--key <key>] [--force]; confirm is the answer to the prompt
Reset(key, force, confirm) ==
    LET config == loadConfig(file)
        r == [Report("reset", "ok") EXCEPT !.key = key, !.force = force,
                                           !.confirm = confirm]
    IN  /\ Invoke
        /\ force => ~confirm
        /\ IF key # "" /\ ~HasKey(DEFAULT_CONFIG, key)
           THEN /\ out' = [r EXCEPT !.status = "unknown-key"]
                /\ file' = file
           ELSE IF ResetCancelled(force, confirm)
           THEN /\ out' = [r EXCEPT !.status = "cancelled"]
                /\ file' = file
           ELSE IF key # ""
           THEN /\ file' = saveConfig(Assign(config, key, Lookup(DEFAULT_CONFIG, key)))
                /\ out' = [r EXCEPT !.oldValue = Lookup(config, key),
                                    !.newValue = Lookup(DEFAULT_CONFIG, key),
                                    !.wrote = TRUE]
           ELSE /\ file' = saveConfig(ResetDocument(config))
                /\ out' = [r EXCEPT !.wrote = TRUE]
        /\ UNCHANGED <<exportFile, vin, vout>>

\* config export [filename].  The command declares no option, so the
\* command-line parser rejects --modified before the handler runs.
Export(modified) ==
    LET config == loadConfig(file)
        r == [Report("export", "ok") EXCEPT !.modified = modified]
    IN  /\ Invoke
        /\ IF modified
           THEN /\ out' = [r EXCEPT !.status = "unknown-option", !.exitCode = 1]
                /\ exportFile' = exportFile
           ELSE /\ exportFile' = JSONstringify(config)
                /\ out' = [r EXCEPT !.doc = config, !.total = Cardinality(DOMAIN config),
                                    !.wrote = TRUE]
        /\ UNCHANGED <<file, vin, vout>>

\* the validation errors import collects for the members of importConfig
ValidationErrors(importConfig) ==
    {k \o ": " \o validateConfigValue(k, importConfig[k]).message :
        k \in {j \in DOMAIN importConfig : ~validateConfigValue(j, importConfig[j]).valid}}

\* a slip in import: the collected errors are printed but do not stop it
ImportAborted_Never(validationErrors, force) == FALSE

\* import returns before it prompts or writes
ImportAborted(validationErrors, force) == validationErrors # {} /\ ~force

\* a slip in import: --merge is not looked at
FinalConfig_MergeIgnored(src, merge, currentConfig) ==
    IF src.kind = "object" THEN JSONstringify(src.obj) ELSE src

\* what import hands to saveConfig, as the text saveConfig writes: the
\* parsed file itself, or with --merge the parsed file spread over the
\* current document
FinalConfig(src, merge, currentConfig) ==
    IF merge THEN JSONstringify(Spread(currentConfig, OwnMembers(src)))
    ELSE IF src.kind = "object" THEN JSONstringify(src.obj)
    ELSE src

\* a slip in the success box: only the members that pass validation count
KeysImported_Valid(importConfig) ==
    Cardinality({k \in DOMAIN importConfig :
                    validateConfigValue(k, importConfig[k]).valid})

\* Keys Imported in the success box: Object.keys(importConfig).length
KeysImported(importConfig) == Cardinality(DOMAIN importConfig)

\* config import <filename> [--merge] [--force], reading a file that holds
\* src.  The collected validation errors are printed in the branch that
\* aborts and nowhere else.
Import(src, merge, force, confirm) ==
    LET importConfig == OwnMembers(src)
        validationErrors == ValidationErrors(importConfig)
        finalConfig == FinalConfig(src, merge, loadConfig(file))
        r == [Report("import", "ok") EXCEPT !.source = src, !.merge = merge,
                                            !.force = force, !.confirm = confirm]
    IN  /\ Invoke
        /\ force => ~confirm
        /\ IF src.kind = "missing"
           THEN /\ out' = [r EXCEPT !.status = "file-not-found"]
                /\ file' = file
           ELSE IF src.kind \in {"corrupt", "null"}
           THEN /\ out' = [r EXCEPT !.status = "error"]
                /\ file' = file
           ELSE IF ImportAborted(validationErrors, force)
           THEN /\ out' = [r EXCEPT !.status = "validation-error",
                                    !.errors = validationErrors]
                /\ file' = file
           ELSE IF ~force /\ ~confirm
           THEN /\ out' = [r EXCEPT !.status = "cancelled"]
                /\ file' = file
           ELSE /\ file' = finalConfig
                /\ out' = [r EXCEPT !.imported = KeysImported(importConfig),
                                    !.total = Cardinality(DOMAIN OwnMembers(finalConfig)),
                                    !.wrote = TRUE]
        /\ UNCHANGED <<exportFile, vin, vout>>

(***************************************************************************)
(* config setup: seven prompts, each preset with the current value.        *)
(***************************************************************************)
\* a list prompt whose user accepts the entry it preselects: the current
\* value when it is one of the choices, else the first choice
ListDefault(choices, first, current) ==
    IF current.t = "string" /\ current.s \in choices THEN current ELSE StrV(first)

\* Boolean(value)
ToBoolean(v) ==
    CASE v.t = "boolean" -> v.b
      [] v.t = "string" -> v.s # ""
      [] v.t = "number" -> v.s = "" /\ (v.n # 0 \/ v.d # 0)
      [] v.t \in {"null", "undefined"} -> FALSE
      [] OTHER -> TRUE

\* a confirm prompt whose user accepts its default
ConfirmDefault(current) ==
    IF current.t \in {"null", "undefined"} THEN BoolV(TRUE)
    ELSE BoolV(ToBoolean(current))

\* validate of the maxItems prompt: input > 0 && input <= 1000
SetupMaxItemsOk(input) == NumGtZero(input) /\ NumLeq(input, MaxItemsLimit)

SetupThemes == {"rainbow", "dark"}
SetupNumbers == {NumV(50), FracV(1, 5), NumV(1001)}

Setup(theme, maxItems) ==
    LET currentConfig == loadConfig(file)
        answers ==
            [theme |-> StrV(theme),
             colorOutput |-> ConfirmDefault(currentConfig.colorOutput),
             dateFormat |-> ListDefault(DateFormatValues, "locale", currentConfig.dateFormat),
             defaultPriority |->
                 ListDefault(PriorityValues, "low", currentConfig.defaultPriority),
             maxItems |-> maxItems,
             autoSave |-> ConfirmDefault(currentConfig.autoSave),
             debug |-> ConfirmDefault(currentConfig.debug)]
        newConfig == Spread(currentConfig, answers)
    IN  /\ Invoke
        /\ theme \in ThemeValues
        /\ SetupMaxItemsOk(maxItems)
        /\ file' = saveConfig(newConfig)
        /\ out' = [Report("setup", "ok") EXCEPT !.doc = answers, !.wrote = TRUE]
        /\ UNCHANGED <<exportFile, vin, vout>>

Next ==
    \/ \E key \in ArgKeys \cup {""} : Get(key)
    \/ List
    \/ \E key \in ArgKeys, value \in ArgValues, force \in BOOLEAN : Set(key, value, force)
    \/ \E key \in ArgKeys \cup {""}, force, confirm \in BOOLEAN : Reset(key, force, confirm)
    \/ \E modified \in BOOLEAN : Export(modified)
    \/ \E src \in ImportFiles \cup {exportFile}, merge, force, confirm \in BOOLEAN :
          Import(src, merge, force, confirm)
    \/ \E theme \in SetupThemes, maxItems \in SetupNumbers : Setup(theme, maxItems)

Spec == Init /\ [][Next]_vars

(***************************************************************************)
(* loadConfig on its own: config.json holds values for a subset S of the   *)
(* schema keys, taken from a document that differs from the defaults at    *)
(* every key, and get and list load it.                                    *)
(***************************************************************************)
OverriddenDocs ==
    {[theme |-> StrV("dark"), colorOutput |-> BoolV(FALSE), dateFormat |-> StrV("iso"),
      defaultPriority |-> StrV("high"), autoSave |-> BoolV(FALSE),
      maxItems |-> NumV(150), apiUrl |-> StrV("http://localhost"),
      timeout |-> NumV(30), language |-> StrV("fr"), debug |-> BoolV(TRUE)],
     [theme |-> StrV("rainbow"), colorOutput |-> BoolV(FALSE), dateFormat |-> StrV("eu"),
      defaultPriority |-> StrV("urgent"), autoSave |-> BoolV(FALSE),
      maxItems |-> NumV(1), apiUrl |-> StrV("x"),
      timeout |-> NumV(1), language |-> StrV("it"), debug |-> BoolV(TRUE)]}

Restrict(o, S) == [k \in S |-> o[k]]

InitLoad ==
    /\ file \in {Doc(Restrict(o, S)) : o \in OverriddenDocs, S \in SUBSET SchemaKeys}
    /\ exportFile = Missing
    /\ out = Idle
    /\ ops = 0
    /\ vin = NoInput
    /\ vout = Invalid("")
    /\ ElsewhereIdle

NextLoad == Get("") \/ List

SpecLoad == InitLoad /\ [][NextLoad]_vars

(***************************************************************************)
(* validateConfigValue on its own: every key with every raw value, strings *)
(* as set passes them and parsed JSON values as import passes them.        *)
(***************************************************************************)
RawStrings ==
    {"default", "dark", "light", "rainbow", "neon", "locale", "iso", "us", "eu",
     "low", "medium", "high", "urgent", "en", "es", "fr", "de", "it",
     "true", "false", "True", "150", "0", "1", "1000", "1001", "-5", "1.5", ".5",
     "", " ", " 12 ", "1e3", "0x1A", "Infinity", "12abc", "http://localhost"}
RawValues ==
    {StrV(str) : str \in RawStrings}
        \cup {BoolV(TRUE), BoolV(FALSE), NullV, NumV(150), NumV(0), NumV(1),
              NumV(1000), NumV(1001), NumV(0 - 1), FracV(1, 5)}

InitValidate ==
    /\ vin \in [key : AllKeys, value : RawValues]
    /\ vout = Invalid("")
    /\ file = Missing
    /\ exportFile = Missing
    /\ out = Idle
    /\ ops = 0
    /\ ElsewhereIdle

Validate ==
    /\ ops = 0
    /\ ops' = 1
    /\ vout' = validateConfigValue(vin.key, vin.value)
    /\ UNCHANGED <<file, exportFile, out, vin>>
    /\ UNCHANGED elsewhere

NextValidate == Validate

SpecValidate == InitValidate /\ [][NextValidate]_vars

(***************************************************************************)
(* The validation loop of import on its own.  Object.entries gives the     *)
(* members of the parsed file in the order the file lists them; vin is     *)
(* that sequence and vout the validationErrors array the loop leaves.      *)
(***************************************************************************)
MaxEntries == 3
EntryKeys == {"theme", "maxItems", "customKey", "constructor"}
EntryValues == {StrV("dark"), NumV(150), StrV("150")}

\* the members of a parsed file: no key twice
ImportEntries ==
    {e \in UNION {[1..n -> [key : EntryKeys, value : EntryValues]] : n \in 0..MaxEntries} :
        \A i, j \in 1..Len(e) : e[i].key = e[j].key => i = j}

\* the object whose Object.entries is the sequence
FromEntries(entries) ==
    [k \in {entries[i].key : i \in 1..Len(entries)} |->
        (CHOOSE e \in {entries[i] : i \in 1..Len(entries)} : e.key = k).value]

RECURSIVE validationErrorList_UntilFirst(_)
\* a slip in the loop: it stops at the first member that fails
validationErrorList_UntilFirst(entries) ==
    IF entries = << >> THEN << >>
    ELSE LET validation == validateConfigValue(Head(entries).key, Head(entries).value)
         IN  IF ~validation.valid
             THEN <<Head(entries).key \o ": " \o validation.message>>
             ELSE validationErrorList_UntilFirst(Tail(entries))

RECURSIVE validationErrorList(_)
\* Object.entries(importConfig).forEach: one push for each member that fails
validationErrorList(entries) ==
    IF entries = << >> THEN << >>
    ELSE LET validation == validateConfigValue(Head(entries).key, Head(entries).value)
         IN  (IF ~validation.valid
              THEN <<Head(entries).key \o ": " \o validation.message>>
              ELSE << >>) \o validationErrorList(Tail(entries))

InitCollect ==
    /\ vin \in ImportEntries
    /\ vout = << >>
    /\ file = Missing
    /\ exportFile = Missing
    /\ out = Idle
    /\ ops = 0
    /\ ElsewhereIdle

Collect ==
    /\ ops = 0
    /\ ops' = 1
    /\ vout' = validationErrorList(vin)
    /\ UNCHANGED <<file, exportFile, out, vin>>
    /\ UNCHANGED elsewhere

NextCollect == Collect

SpecCollect == InitCollect /\ [][NextCollect]_vars

(***************************************************************************)
(* The config commands when fs.writeFile inside saveConfig throws.         *)
(* writeFile opens config.json for writing, which truncates it, and then   *)
(* writes: when the open is refused (permissions, read-only volume) the    *)
(* file is what it was, and when the write is refused after the open (disk *)
(* full) the file is left empty or cut short, which JSON.parse rejects.    *)
(* The exception reaches the catch of the handler, which prints it.        *)
(***************************************************************************)
writeFileThrows(f) == {f, Corrupt}

SetWriteFails(key, value, force) ==
    LET validation == validateConfigValue(key, StrV(value))
        r == [Report("set", "write-error") EXCEPT !.key = key, !.raw = StrV(value),
                                                  !.force = force]
    IN  /\ Invoke
        /\ ~SetRejected(force, validation)
        /\ file' \in writeFileThrows(file)
        /\ out' = r
        /\ UNCHANGED <<exportFile, vin, vout>>

ResetWriteFails(key, force, confirm) ==
    LET r == [Report("reset", "write-error") EXCEPT !.key = key, !.force = force,
                                                    !.confirm = confirm]
    IN  /\ Invoke
        /\ force => ~confirm
        /\ key = "" \/ HasKey(DEFAULT_CONFIG, key)
        /\ ~ResetCancelled(force, confirm)
        /\ file' \in writeFileThrows(file)
        /\ out' = r
        /\ UNCHANGED <<exportFile, vin, vout>>

ImportWriteFails(src, merge, force, confirm) ==
    LET validationErrors == ValidationErrors(OwnMembers(src))
        r == [Report("import", "write-error") EXCEPT !.source = src, !.merge = merge,
                                                     !.force = force,
                                                     !.confirm = confirm]
    IN  /\ Invoke
        /\ force => ~confirm
        /\ src.kind \in {"object", "scalar"}
        /\ ~ImportAborted(validationErrors, force)
        /\ force \/ confirm
        /\ file' \in writeFileThrows(file)
        /\ out' = r
        /\ UNCHANGED <<exportFile, vin, vout>>

NextStorage ==
    \/ \E key \in ArgKeys \cup {""} : Get(key)
    \/ List
    \/ \E key \in ArgKeys, value \in ArgValues, force \in BOOLEAN :
          SetWriteFails(key, value, force)
    \/ \E key \in ArgKeys \cup {""}, force, confirm \in BOOLEAN :
          ResetWriteFails(key, force, confirm)
    \/ \E src \in ImportDocs, merge, force, confirm \in BOOLEAN :
          ImportWriteFails(src, merge, force, confirm)

SpecStorage == Init /\ [][NextStorage]_vars

(***************************************************************************)
(* The user command group (src/src/commands/users.ts).  users is the array *)
(* loadUsers returns: users.json as saveUsers wrote it, and the empty      *)
(* array while the file is missing.  A user is id, name, email and role;   *)
(* age, phone and the two timestamps are stored beside them and no         *)
(* command reads them to decide anything.  generateId draws the id at      *)
(* random and nothing compares it with the ids in use.                     *)
(***************************************************************************)
MaxUserOps == 3
MaxUsers == 2

configState == <<file, exportFile, vin, vout>>

CharAt(str, i) == SubSeq(str, i, i)

\* /^[^\s@]+@[^\s@]+\.[^\s@]+$/ : no white space, one @ that is not the
\* first character, and after it a dot that is neither the first nor the
\* last character of what follows the @
validateEmail(email) ==
    LET at == {i \in 1..Len(email) : CharAt(email, i) = "@"}
    IN  /\ \A i \in 1..Len(email) : CharAt(email, i) \notin WhiteSpace
        /\ Cardinality(at) = 1
        /\ \A a \in at :
              /\ a > 1
              /\ \E i \in (a + 2)..(Len(email) - 1) : CharAt(email, i) = "."

\* users.findIndex(u => u.id === userId): 0 stands for -1
FindIndex(arr, id) ==
    IF \E i \in 1..Len(arr) : arr[i].id = id
    THEN CHOOSE i \in 1..Len(arr) :
            arr[i].id = id /\ \A j \in 1..(i - 1) : arr[j].id # id
    ELSE 0

\* arr.splice(index, 1)
Splice(arr, index) == SubSeq(arr, 1, index - 1) \o SubSeq(arr, index + 1, Len(arr))

UserIds == {"u1", "u2"}
UserNames == {"Ann"}
UserEmails == {"a@x.com", "b@x.com", "a.x@com"}

InitUsers ==
    /\ users = << >>
    /\ tasks = << >>
    /\ disk = << >>
    /\ profiles = << >>
    /\ monitor = << >>
    /\ procs = << >>
    /\ file = Missing
    /\ exportFile = Missing
    /\ out = Idle
    /\ ops = 0
    /\ vin = NoInput
    /\ vout = Invalid("")

\* one more invocation of a user command starts
InvokeUser ==
    /\ ops < MaxUserOps
    /\ ops' = ops + 1
    /\ UNCHANGED <<configState, tasks, disk, profiles, monitor, procs>>

\* a slip in add: the stored emails are not looked at
EmailTaken_Never(arr, email) == FALSE

\* users.find(u => u.email === userData.email)
EmailTaken(arr, email) == \E i \in 1..Len(arr) : arr[i].email = email

\* user add [name] [email]: name and email are what userData holds after
\* the prompts, which run with --interactive or when an argument is missing
\* and take no empty name and no invalid email; id is what generateId gives
UserAdd(name, email, role, interactive, id) ==
    LET r == [Report("user add", "ok") EXCEPT !.key = id, !.raw = StrV(email)]
    IN  /\ InvokeUser
        /\ Len(users) < MaxUsers
        /\ name # "" /\ email # ""
        /\ interactive => validateEmail(email)
        /\ IF ~validateEmail(email)
           THEN /\ out' = [r EXCEPT !.status = "validation-error"]
                /\ users' = users
           ELSE IF EmailTaken(users, email)
           THEN /\ out' = [r EXCEPT !.status = "duplicate"]
                /\ users' = users
           ELSE /\ users' = Append(users, [id |-> id, name |-> name,
                                           email |-> email, role |-> role])
                /\ out' = [r EXCEPT !.wrote = TRUE]

\* user update <userId> [--name] [--email] [--role]: an option that is
\* absent or empty leaves the field as it is
UserUpdate(userId, name, email, role) ==
    LET userIndex == FindIndex(users, userId)
        user == users[userIndex]
        r == [Report("user update", "ok") EXCEPT !.key = userId, !.raw = StrV(email)]
    IN  /\ InvokeUser
        /\ IF userIndex = 0
           THEN /\ out' = [r EXCEPT !.status = "not-found"]
                /\ users' = users
           ELSE /\ users' = [users EXCEPT ![userIndex] =
                                [id |-> user.id,
                                 name |-> IF name # "" THEN name ELSE user.name,
                                 email |-> IF email # "" THEN email ELSE user.email,
                                 role |-> IF role # "" THEN role ELSE user.role]]
                /\ out' = [r EXCEPT !.wrote = TRUE]

\* a slip in a delete or clear: the answer to the prompt is not looked at
Declined_Never(force, confirm) == FALSE

\* if (!options.force) { prompt; if (!confirm) return }
Declined(force, confirm) == ~force /\ ~confirm

\* user delete <userId> [--force]
UserDelete(userId, force, confirm) ==
    LET userIndex == FindIndex(users, userId)
        r == [Report("user delete", "ok") EXCEPT !.key = userId, !.force = force,
                                                 !.confirm = confirm]
    IN  /\ InvokeUser
        /\ force => ~confirm
        /\ IF userIndex = 0
           THEN /\ out' = [r EXCEPT !.status = "not-found"]
                /\ users' = users
           ELSE IF Declined(force, confirm)
           THEN /\ out' = [r EXCEPT !.status = "cancelled"]
                /\ users' = users
           ELSE /\ users' = Splice(users, userIndex)
                /\ out' = [r EXCEPT !.wrote = TRUE]

\* user clear [--force]
UserClear(force, confirm) ==
    LET r == [Report("user clear", "ok") EXCEPT !.force = force, !.confirm = confirm]
    IN  /\ InvokeUser
        /\ force => ~confirm
        /\ IF Len(users) = 0
           THEN /\ out' = [r EXCEPT !.status = "nothing-to-do"]
                /\ users' = users
           ELSE IF Declined(force, confirm)
           THEN /\ out' = [r EXCEPT !.status = "cancelled"]
                /\ users' = users
           ELSE /\ users' = << >>
                /\ out' = [r EXCEPT !.wrote = TRUE]

NextUsers ==
    \/ \E name \in UserNames, email \in UserEmails,
          interactive \in BOOLEAN, id \in UserIds :
          UserAdd(name, email, "user", interactive, id)
    \/ \E userId \in UserIds \cup {"u9"}, name \in {"", "Bob"},
          email \in UserEmails \cup {""}, role \in {"", "admin"} :
          UserUpdate(userId, name, email, role)
    \/ \E userId \in UserIds \cup {"u9"}, force, confirm \in BOOLEAN :
          UserDelete(userId, force, confirm)
    \/ \E force, confirm \in BOOLEAN : UserClear(force, confirm)

SpecUsers == InitUsers /\ [][NextUsers]_vars

(***************************************************************************)
(* The task command group (src/src/commands/tasks.ts).  tasks is the array *)
(* loadTasks returns.  A task is id, priority, status and completedAt (the *)
(* empty string while the member is absent, else the time of completion);  *)
(* title, description, due, tags and the other timestamps are stored       *)
(* beside them.  An option whose value is the empty string is to the       *)
(* handlers an option that was not given.                                  *)
(***************************************************************************)
MaxTaskOps == 3
MaxTasks == 2

PRIORITIES == {"low", "medium", "high", "urgent"}
STATUSES == {"pending", "in-progress", "completed", "cancelled"}

\* isNaN(new Date(due).getTime()) for the dates the model passes: a date
\* written YYYY-MM-DD is valid, a word is not
DateIsNaN(due) ==
    ~(/\ Len(due) = 10
      /\ \A i \in {1, 2, 3, 4, 6, 7, 9, 10} : CharAt(due, i) \in Digits
      /\ \A i \in {5, 8} : CharAt(due, i) = "-")

TaskIds == {"t1", "t2"}

\* new Date().toISOString() at the moment a task is completed
Now == "now"

AddOptions ==
    {[priority |-> "medium", due |-> "", interactive |-> FALSE],
     [priority |-> "critical", due |-> "", interactive |-> FALSE],
     [priority |-> "high", due |-> "soon", interactive |-> FALSE],
     [priority |-> "low", due |-> "2024-01-15", interactive |-> FALSE],
     [priority |-> "urgent", due |-> "", interactive |-> TRUE]}

UpdateOptions ==
    {[priority |-> "", status |-> "completed", due |-> "", interactive |-> FALSE],
     [priority |-> "", status |-> "pending", due |-> "", interactive |-> FALSE],
     [priority |-> "high", status |-> "", due |-> "", interactive |-> FALSE],
     [priority |-> "critical", status |-> "", due |-> "", interactive |-> FALSE],
     [priority |-> "", status |-> "done", due |-> "", interactive |-> FALSE],
     [priority |-> "", status |-> "", due |-> "soon", interactive |-> FALSE],
     [priority |-> "low", status |-> "in-progress", due |-> "", interactive |-> TRUE]}

InitTasks ==
    /\ tasks = << >>
    /\ users = << >>
    /\ disk = << >>
    /\ profiles = << >>
    /\ monitor = << >>
    /\ procs = << >>
    /\ file = Missing
    /\ exportFile = Missing
    /\ out = Idle
    /\ ops = 0
    /\ vin = NoInput
    /\ vout = Invalid("")

\* one more invocation of a task command starts
InvokeTask ==
    /\ ops < MaxTaskOps
    /\ ops' = ops + 1
    /\ UNCHANGED <<configState, users, disk, profiles, monitor, procs>>

\* a slip in the validation: every priority and status is taken
EnumIncludes_Always(enum, value) == TRUE

\* PRIORITIES.includes(value), STATUSES.includes(value)
EnumIncludes(enum, value) == value \in enum

\* task add <title> [--priority] [--due] [--interactive]; with
\* --interactive the priority is a choice of the list prompt and the due
\* date passed the prompt's validation
TaskAdd(options, id) ==
    LET r == [Report("task add", "ok") EXCEPT !.key = id,
                                              !.raw = StrV(options.priority)]
    IN  /\ InvokeTask
        /\ Len(tasks) < MaxTasks
        /\ options.interactive
              => (/\ options.priority \in PRIORITIES
                  /\ options.due = "" \/ ~DateIsNaN(options.due))
        /\ IF ~EnumIncludes(PRIORITIES, options.priority)
           THEN /\ out' = [r EXCEPT !.status = "validation-error",
                                    !.errors = {"Invalid priority"}]
                /\ tasks' = tasks
           ELSE IF options.due # "" /\ DateIsNaN(options.due)
           THEN /\ out' = [r EXCEPT !.status = "validation-error",
                                    !.errors = {"Invalid due date format"}]
                /\ tasks' = tasks
           ELSE /\ tasks' = Append(tasks, [id |-> id, priority |-> options.priority,
                                           status |-> "pending", completedAt |-> ""])
                /\ out' = [r EXCEPT !.wrote = TRUE]

\* task complete <taskId>
TaskComplete(taskId) ==
    LET taskIndex == FindIndex(tasks, taskId)
        task == tasks[taskIndex]
        r == [Report("task complete", "ok") EXCEPT !.key = taskId]
    IN  /\ InvokeTask
        /\ IF taskIndex = 0
           THEN /\ out' = [r EXCEPT !.status = "not-found"]
                /\ tasks' = tasks
           ELSE IF task.status = "completed"
           THEN /\ out' = [r EXCEPT !.status = "already-completed"]
                /\ tasks' = tasks
           ELSE /\ tasks' = [tasks EXCEPT ![taskIndex] =
                                [task EXCEPT !.status = "completed",
                                             !.completedAt = Now]]
                /\ out' = [r EXCEPT !.wrote = TRUE]

\* task update <taskId> [--priority] [--status] [--due] [--interactive];
\* with --interactive priority and status are choices of the list prompts
TaskUpdate(taskId, updates) ==
    LET taskIndex == FindIndex(tasks, taskId)
        task == tasks[taskIndex]
        r == [Report("task update", "ok") EXCEPT !.key = taskId,
                                                 !.raw = StrV(updates.status),
                                                 !.newValue = StrV(updates.priority)]
    IN  /\ InvokeTask
        /\ updates.interactive
              => (updates.priority \in PRIORITIES /\ updates.status \in STATUSES)
        /\ IF taskIndex = 0
           THEN /\ out' = [r EXCEPT !.status = "not-found"]
                /\ tasks' = tasks
           ELSE IF updates.priority # "" /\ ~EnumIncludes(PRIORITIES, updates.priority)
           THEN /\ out' = [r EXCEPT !.status = "validation-error",
                                    !.errors = {"Invalid priority"}]
                /\ tasks' = tasks
           ELSE IF updates.status # "" /\ ~EnumIncludes(STATUSES, updates.status)
           THEN /\ out' = [r EXCEPT !.status = "validation-error",
                                    !.errors = {"Invalid status"}]
                /\ tasks' = tasks
           ELSE IF updates.due # "" /\ DateIsNaN(updates.due)
           THEN /\ out' = [r EXCEPT !.status = "validation-error",
                                    !.errors = {"Invalid due date format"}]
                /\ tasks' = tasks
           ELSE /\ tasks' = [tasks EXCEPT ![taskIndex] =
                                [id |-> task.id,
                                 priority |-> IF updates.priority # ""
                                              THEN updates.priority ELSE task.priority,
                                 status |-> IF updates.status # ""
                                            THEN updates.status ELSE task.status,
                                 completedAt |->
                                     IF updates.status = "completed" /\ task.completedAt = ""
                                     THEN Now ELSE task.completedAt]]
                /\ out' = [r EXCEPT !.wrote = TRUE]

\* task delete <taskId> [--force]
TaskDelete(taskId, force, confirm) ==
    LET taskIndex == FindIndex(tasks, taskId)
        r == [Report("task delete", "ok") EXCEPT !.key = taskId, !.force = force,
                                                 !.confirm = confirm]
    IN  /\ InvokeTask
        /\ force => ~confirm
        /\ IF taskIndex = 0
           THEN /\ out' = [r EXCEPT !.status = "not-found"]
                /\ tasks' = tasks
           ELSE IF Declined(force, confirm)
           THEN /\ out' = [r EXCEPT !.status = "cancelled"]
                /\ tasks' = tasks
           ELSE /\ tasks' = Splice(tasks, taskIndex)
                /\ out' = [r EXCEPT !.wrote = TRUE]

\* tasks.filter(task => task.status !== 'completed')
Remaining(arr) == SelectSeq(arr, LAMBDA task : task.status # "completed")

\* task clear-completed [--force]
TaskClearCompleted(force, confirm) ==
    LET completedTasks == SelectSeq(tasks, LAMBDA task : task.status = "completed")
        r == [Report("task clear-completed", "ok") EXCEPT !.force = force,
                                                          !.confirm = confirm]
    IN  /\ InvokeTask
        /\ force => ~confirm
        /\ IF Len(completedTasks) = 0
           THEN /\ out' = [r EXCEPT !.status = "nothing-to-do"]
                /\ tasks' = tasks
           ELSE IF Declined(force, confirm)
           THEN /\ out' = [r EXCEPT !.status = "cancelled"]
                /\ tasks' = tasks
           ELSE /\ tasks' = Remaining(tasks)
                /\ out' = [r EXCEPT !.imported = Len(completedTasks), !.wrote = TRUE]

NextTasks ==
    \/ \E options \in AddOptions, id \in TaskIds : TaskAdd(options, id)
    \/ \E taskId \in TaskIds \cup {"t9"} : TaskComplete(taskId)
    \/ \E taskId \in {"t1", "t9"}, updates \in UpdateOptions : TaskUpdate(taskId, updates)
    \/ \E taskId \in {"t1", "t9"}, force, confirm \in BOOLEAN :
          TaskDelete(taskId, force, confirm)
    \/ \E force, confirm \in BOOLEAN : TaskClearCompleted(force, confirm)

SpecTasks == InitTasks /\ [][NextTasks]_vars

(***************************************************************************)
(* The file command group (src/src/commands/files.ts).  A resolved path is *)
(* the sequence of its segments from the root; disk maps every path that   *)
(* exists to a directory or to the content of a file.  The process runs in *)
(* the directory Cwd.                                                      *)
(***************************************************************************)
Cwd == <<"app">>

RECURSIVE SegLen(_)
\* the length of the first segment of a path string
SegLen(str) == IF str = "" \/ Head(str) = "/" THEN 0 ELSE 1 + SegLen(Tail(str))

RECURSIVE SplitPath(_)
\* the segments of a path string
SplitPath(str) ==
    IF str = "" THEN << >>
    ELSE IF Head(str) = "/" THEN SplitPath(Tail(str))
    ELSE <<Take(str, SegLen(str))>> \o SplitPath(Drop(str, SegLen(str)))

RECURSIVE Walk(_, _)
\* normalisation: "." stays, ".." goes up (not above the root)
Walk(path, segs) ==
    IF segs = << >> THEN path
    ELSE IF Head(segs) = "." THEN Walk(path, Tail(segs))
    ELSE IF Head(segs) = ".."
    THEN Walk(SubSeq(path, 1, Len(path) - 1), Tail(segs))
    ELSE Walk(Append(path, Head(segs)), Tail(segs))

\* path.resolve(base, name), base a resolved path
pathResolve(base, name) ==
    IF StartsWith(name, "/") THEN Walk(<< >>, SplitPath(name))
    ELSE Walk(base, SplitPath(name))

\* path.resolve('demo-files')
demoDir == pathResolve(Cwd, "demo-files")

Directory == [dir |-> TRUE, content |-> ""]
RegularFile(content) == [dir |-> FALSE, content |-> content]

Exists(d, path) == path \in DOMAIN d
IsDirectory(d, path) == Exists(d, path) /\ d[path].dir
IsFile(d, path) == Exists(d, path) /\ ~d[path].dir
Parent(path) == SubSeq(path, 1, Len(path) - 1)
IsPrefix(pre, path) == Len(pre) <= Len(path) /\ SubSeq(path, 1, Len(pre)) = pre
Children(d, path) == {q \in DOMAIN d : Len(q) = Len(path) + 1 /\ IsPrefix(path, q)}

\* fs.mkdir(path, { recursive: true }) below a directory that exists
Mkdir(d, path) ==
    [q \in DOMAIN d \cup {SubSeq(path, 1, n) : n \in 0..Len(path)} |->
        IF q \in DOMAIN d THEN d[q] ELSE Directory]

\* fs.writeFile and the write half of fs.copyFile throw
WriteThrows(d, path) ==
    path = << >> \/ ~IsDirectory(d, Parent(path)) \/ IsDirectory(d, path)

Write(d, path, content) ==
    [q \in DOMAIN d \cup {path} |-> IF q = path THEN RegularFile(content) ELSE d[q]]

\* fs.unlink, fs.rmdir of an empty directory, fs.rm recursive
Remove(d, path) == [q \in {x \in DOMAIN d : ~IsPrefix(path, x)} |-> d[q]]

FileNames == {"a.txt", "b.txt", "sub", "../users.json", "/etc/hosts"}
CopyNames == {"a.txt", "demo-files/a.txt", "demo-files/b.txt"}

\* the text create writes when --content is not given (the text template)
Template == "This is a sample text file.\nCreated with Commander.js demo!"

BaseDisk ==
    (<< >> :> Directory) @@ (<<"app">> :> Directory)
        @@ (<<"app", "users.json">> :> RegularFile("[]"))
        @@ (<<"etc">> :> Directory) @@ (<<"etc", "hosts">> :> RegularFile("127.0.0.1"))

DemoDisk ==
    BaseDisk @@ (demoDir :> Directory)
        @@ (Append(demoDir, "a.txt") :> RegularFile("hello"))
        @@ (Append(demoDir, "sub") :> Directory)
        @@ (Append(Append(demoDir, "sub"), "c.txt") :> RegularFile("c"))

InitFiles ==
    /\ disk \in {BaseDisk, DemoDisk}
    /\ users = << >>
    /\ tasks = << >>
    /\ profiles = << >>
    /\ monitor = << >>
    /\ procs = << >>
    /\ file = Missing
    /\ exportFile = Missing
    /\ out = Idle
    /\ ops = 0
    /\ vin = NoInput
    /\ vout = Invalid("")

\* one more invocation of a file command starts
InvokeFile ==
    /\ ops < MaxOps
    /\ ops' = ops + 1
    /\ UNCHANGED <<configState, users, tasks, profiles, monitor, procs>>

\* file create <filename> [--content] [--force]; overwrite is the answer to
\* the prompt
FileCreate(filename, content, force, overwrite) ==
    LET made == Mkdir(disk, demoDir)
        filePath == pathResolve(demoDir, filename)
        exists == Exists(made, filePath)
        text == IF content # "" THEN content ELSE Template
        r == [Report("file create", "ok") EXCEPT !.key = filename, !.force = force,
                                                 !.confirm = overwrite,
                                                 !.paths = {demoDir, filePath}]
    IN  /\ InvokeFile
        /\ (force \/ ~exists) => ~overwrite
        /\ IF exists /\ ~force /\ ~overwrite
           THEN /\ out' = [r EXCEPT !.status = "cancelled"]
                /\ disk' = made
           ELSE IF WriteThrows(made, filePath)
           THEN /\ out' = [r EXCEPT !.status = "error"]
                /\ disk' = made
           ELSE /\ disk' = Write(made, filePath, text)
                /\ out' = [r EXCEPT !.wrote = TRUE]

\* file read <filename>
FileRead(filename) ==
    LET filePath == pathResolve(demoDir, filename)
        r == [Report("file read", "ok") EXCEPT !.key = filename, !.paths = {filePath}]
    IN  /\ InvokeFile
        /\ out' = IF IsFile(disk, filePath)
                  THEN [r EXCEPT !.newValue = StrV(disk[filePath].content)]
                  ELSE [r EXCEPT !.status = "error"]
        /\ disk' = disk

\* file list [directory]
FileList(directory) ==
    LET dirPath == IF directory = "." THEN demoDir ELSE pathResolve(demoDir, directory)
        r == [Report("file list", "ok") EXCEPT !.key = directory, !.paths = {dirPath}]
    IN  /\ InvokeFile
        /\ out' = IF IsDirectory(disk, dirPath)
                  THEN [r EXCEPT !.paths = {dirPath} \cup Children(disk, dirPath),
                                 !.total = Cardinality(Children(disk, dirPath))]
                  ELSE [r EXCEPT !.status = "error"]
        /\ disk' = disk

\* file delete <filename> [--force] [--recursive]
FileDelete(filename, force, recursive, confirm) ==
    LET filePath == pathResolve(demoDir, filename)
        r == [Report("file delete", "ok") EXCEPT !.key = filename, !.force = force,
                                                 !.confirm = confirm,
                                                 !.paths = {filePath}]
    IN  /\ InvokeFile
        /\ force => ~confirm
        /\ IF ~Exists(disk, filePath)
           THEN /\ out' = [r EXCEPT !.status = "error"]
                /\ disk' = disk
           ELSE IF Declined(force, confirm)
           THEN /\ out' = [r EXCEPT !.status = "cancelled"]
                /\ disk' = disk
           ELSE IF /\ IsDirectory(disk, filePath) /\ ~recursive
                   /\ (Children(disk, filePath) # {} \/ filePath = << >>)
           THEN /\ out' = [r EXCEPT !.status = "error"]
                /\ disk' = disk
           ELSE /\ disk' = Remove(disk, filePath)
                /\ out' = [r EXCEPT !.wrote = TRUE]

\* file copy <source> <destination> [--force]: both names are resolved
\* against the working directory
FileCopy(source, destination, force, overwrite) ==
    LET sourcePath == pathResolve(Cwd, source)
        destPath == pathResolve(Cwd, destination)
        destExists == Exists(disk, destPath)
        r == [Report("file copy", "ok") EXCEPT !.key = source, !.force = force,
                                               !.confirm = overwrite,
                                               !.paths = {sourcePath, destPath}]
    IN  /\ InvokeFile
        /\ (force \/ ~destExists) => ~overwrite
        /\ IF destExists /\ ~force /\ ~overwrite
           THEN /\ out' = [r EXCEPT !.status = "cancelled", !.paths = {destPath}]
                /\ disk' = disk
           ELSE IF ~IsFile(disk, sourcePath) \/ WriteThrows(disk, destPath)
           THEN /\ out' = [r EXCEPT !.status = "error"]
                /\ disk' = disk
           ELSE /\ disk' = Write(disk, destPath, disk[sourcePath].content)
                /\ out' = [r EXCEPT !.wrote = TRUE]

NextFiles ==
    \/ \E filename \in FileNames, content \in {"", "x"}, force, overwrite \in BOOLEAN :
          FileCreate(filename, content, force, overwrite)
    \/ \E filename \in FileNames : FileRead(filename)
    \/ \E directory \in {".", "sub", ".."} : FileList(directory)
    \/ \E filename \in FileNames, force, recursive, confirm \in BOOLEAN :
          FileDelete(filename, force, recursive, confirm)
    \/ \E source, destination \in CopyNames, force, overwrite \in BOOLEAN :
          FileCopy(source, destination, force, overwrite)

SpecFiles == InitFiles /\ [][NextFiles]_vars

(***************************************************************************)
(* The profile command group (src/src/commands/profile.ts).  The profiles  *)
(* live in a Map of the module, created when the module is loaded: every   *)
(* invocation of the CLI is a process of its own and starts from the Map   *)
(* that "new Map()" gives.  profiles is the Map the last process held when *)
(* its handler returned.                                                   *)
(***************************************************************************)
MaxProfileOps == 3

UpperCase == "ABCDEFGHIJKLMNOPQRSTUVWXYZ"
LowerCase == "abcdefghijklmnopqrstuvwxyz"

\* one character in lower case
LowerChar(c) ==
    IF \E i \in 1..Len(UpperCase) : CharAt(UpperCase, i) = c
    THEN CharAt(LowerCase, CHOOSE i \in 1..Len(UpperCase) : CharAt(UpperCase, i) = c)
    ELSE c

RECURSIVE toLowerCase(_)
toLowerCase(str) ==
    IF str = "" THEN "" ELSE LowerChar(Head(str)) \o toLowerCase(Tail(str))

\* const profiles = new Map()
ModuleLoad == << >>

MapSet(map, key, value) ==
    [k \in DOMAIN map \cup {key} |-> IF k = key THEN value ELSE map[k]]
MapDelete(map, key) == [k \in DOMAIN map \ {key} |-> map[k]]

ProfileNames == {"Ann", "ann", "ANN", "Bob"}
ProfileRoles == {"admin", "user"}
\* the operations option, split at the commas; none given is << >>
OperationLists == {<< >>, <<"validate">>, <<"save", "welcome">>}

InitProfiles ==
    /\ profiles = ModuleLoad
    /\ users = << >>
    /\ tasks = << >>
    /\ disk = << >>
    /\ monitor = << >>
    /\ procs = << >>
    /\ file = Missing
    /\ exportFile = Missing
    /\ out = Idle
    /\ ops = 0
    /\ vin = NoInput
    /\ vout = Invalid("")

\* one more invocation of a profile command starts
InvokeProfile ==
    /\ ops < MaxProfileOps
    /\ ops' = ops + 1
    /\ UNCHANGED <<configState, users, tasks, disk, monitor, procs>>

\* profile create <name> --role <role> [--operations <ops>]
ProfileCreate(name, role, operations) ==
    LET db == ModuleLoad
        performed == IF operations = << >> THEN <<"validate", "save">> ELSE operations
        profileData == [name |-> name, role |-> role, operations |-> performed]
        saves == \E i \in 1..Len(performed) : performed[i] = "save"
    IN  /\ InvokeProfile
        /\ profiles' = IF saves THEN MapSet(db, toLowerCase(name), profileData) ELSE db
        /\ out' = [Report("profile create", "ok") EXCEPT !.key = name, !.wrote = saves]

\* profile view <name>
ProfileView(name) ==
    LET db == ModuleLoad
    IN  /\ InvokeProfile
        /\ profiles' = db
        /\ out' = [Report("profile view",
                          IF toLowerCase(name) \in DOMAIN db THEN "ok" ELSE "not-found")
                      EXCEPT !.key = name]

\* profile list
ProfileList ==
    LET db == ModuleLoad
    IN  /\ InvokeProfile
        /\ profiles' = db
        /\ out' = [Report("profile list", IF DOMAIN db = {} THEN "empty" ELSE "ok")
                      EXCEPT !.total = Cardinality(DOMAIN db)]

\* profile update <name> [--role <role>]
ProfileUpdate(name, role) ==
    LET db == ModuleLoad
        key == toLowerCase(name)
        r == [Report("profile update", "ok") EXCEPT !.key = name]
    IN  /\ InvokeProfile
        /\ IF key \notin DOMAIN db
           THEN /\ out' = [r EXCEPT !.status = "not-found"]
                /\ profiles' = db
           ELSE /\ profiles' = MapSet(db, key,
                                      IF role # "" THEN [db[key] EXCEPT !.role = role]
                                      ELSE db[key])
                /\ out' = [r EXCEPT !.wrote = TRUE]

\* profile delete <name> [--force]
ProfileDelete(name, force, confirm) ==
    LET db == ModuleLoad
        key == toLowerCase(name)
        r == [Report("profile delete", "ok") EXCEPT !.key = name, !.force = force,
                                                    !.confirm = confirm]
    IN  /\ InvokeProfile
        /\ force => ~confirm
        /\ IF key \notin DOMAIN db
           THEN /\ out' = [r EXCEPT !.status = "not-found"]
                /\ profiles' = db
           ELSE IF Declined(force, confirm)
           THEN /\ out' = [r EXCEPT !.status = "cancelled"]
                /\ profiles' = db
           ELSE /\ profiles' = MapDelete(db, key)
                /\ out' = [r EXCEPT !.wrote = TRUE]

NextProfiles ==
    \/ \E name \in ProfileNames, role \in ProfileRoles, operations \in OperationLists :
          ProfileCreate(name, role, operations)
    \/ \E name \in ProfileNames : ProfileView(name)
    \/ ProfileList
    \/ \E name \in ProfileNames, role \in ProfileRoles \cup {""} : ProfileUpdate(name, role)
    \/ \E name \in ProfileNames, force, confirm \in BOOLEAN :
          ProfileDelete(name, force, confirm)

SpecProfiles == InitProfiles /\ [][NextProfiles]_vars

(***************************************************************************)
(* The destructive commands of all groups, run on stores that hold         *)
(* something to delete: two users, a completed and a pending task, and the *)
(* demo-files directory with a file and a directory in it.                 *)
(***************************************************************************)
DestructiveCommands ==
    {"user delete", "user clear", "task delete", "task clear-completed",
     "file delete", "profile delete"}

InitDestructive ==
    /\ users = <<[id |-> "u1", name |-> "Ann", email |-> "a@x.com", role |-> "user"],
                 [id |-> "u2", name |-> "Ann", email |-> "b@x.com", role |-> "user"]>>
    /\ tasks = <<[id |-> "t1", priority |-> "low", status |-> "completed",
                  completedAt |-> Now],
                 [id |-> "t2", priority |-> "high", status |-> "pending",
                  completedAt |-> ""]>>
    /\ disk = DemoDisk
    /\ profiles = ModuleLoad
    /\ monitor = << >>
    /\ procs = << >>
    /\ file = Missing
    /\ exportFile = Missing
    /\ out = Idle
    /\ ops = 0
    /\ vin = NoInput
    /\ vout = Invalid("")

NextDestructive ==
    \/ \E userId \in UserIds \cup {"u9"}, force, confirm \in BOOLEAN :
          UserDelete(userId, force, confirm)
    \/ \E force, confirm \in BOOLEAN : UserClear(force, confirm)
    \/ \E taskId \in TaskIds \cup {"t9"}, force, confirm \in BOOLEAN :
          TaskDelete(taskId, force, confirm)
    \/ \E force, confirm \in BOOLEAN : TaskClearCompleted(force, confirm)
    \/ \E filename \in FileNames, force, recursive, confirm \in BOOLEAN :
          FileDelete(filename, force, recursive, confirm)
    \/ \E name \in ProfileNames, force, confirm \in BOOLEAN :
          ProfileDelete(name, force, confirm)

SpecDestructive == InitDestructive /\ [][NextDestructive]_vars

(***************************************************************************)
(* system monitor (src/src/commands/system.ts).  monitor is the state of   *)
(* the monitoring process: the options it was started with (count 0 is no  *)
(* --count), sampleCount, whether the interval timer is active, and which  *)
(* of its two closing lines it has printed.  The callback of the timer has *)
(* no await in it, so one tick is one step.                                *)
(***************************************************************************)
MaxCount == 3
MaxSamples == 4

NotStarted ==
    [phase |-> "idle", interval |-> 2, count |-> 0, sampleCount |-> 0,
     timer |-> FALSE, completed |-> FALSE, stopped |-> FALSE]

InitMonitor ==
    /\ monitor = NotStarted
    /\ users = << >>
    /\ tasks = << >>
    /\ disk = << >>
    /\ profiles = << >>
    /\ procs = << >>
    /\ file = Missing
    /\ exportFile = Missing
    /\ out = Idle
    /\ ops = 0
    /\ vin = NoInput
    /\ vout = Invalid("")

UnchangedByMonitor == UNCHANGED <<configState, users, tasks, disk, profiles, procs>>

\* a slip in the callback: the timer is never cleared on the count
CountReached_Never(count, sampleCount) == FALSE

\* options.count && sampleCount >= options.count
CountReached(count, sampleCount) == count # 0 /\ sampleCount >= count

\* system monitor [--interval <seconds>] [--count <number>]: the handler
\* sets the timer and the SIGINT listener and returns
MonitorStart(interval, count) ==
    /\ monitor.phase \in {"idle", "exited"}
    /\ ops < MaxOps
    /\ ops' = ops + 1
    /\ monitor' = [phase |-> "running", interval |-> interval, count |-> count,
                   sampleCount |-> 0, timer |-> TRUE, completed |-> FALSE,
                   stopped |-> FALSE]
    /\ out' = Report("system monitor", "running")
    /\ UnchangedByMonitor

\* the callback of setInterval: one sample
Tick ==
    /\ monitor.timer
    /\ monitor.count # 0 \/ monitor.sampleCount < MaxSamples
    /\ LET sampleCount == monitor.sampleCount + 1
           done == CountReached(monitor.count, sampleCount)
       IN  /\ monitor' = [monitor EXCEPT !.sampleCount = sampleCount,
                                         !.timer = ~done,
                                         !.completed = done]
           /\ out' = [out EXCEPT !.total = sampleCount,
                                 !.status = IF done THEN "completed" ELSE @]
    /\ ops' = ops
    /\ UnchangedByMonitor

\* process.on('SIGINT'): clearInterval, the stopped line, process.exit(0)
Sigint ==
    /\ monitor.phase = "running"
    /\ monitor' = [monitor EXCEPT !.timer = FALSE, !.stopped = TRUE, !.phase = "exited"]
    /\ out' = [out EXCEPT !.status = "stopped"]
    /\ ops' = ops
    /\ UnchangedByMonitor

\* with the timer cleared nothing keeps the event loop alive
Exit ==
    /\ monitor.phase = "running"
    /\ ~monitor.timer
    /\ monitor' = [monitor EXCEPT !.phase = "exited"]
    /\ UNCHANGED <<out, ops>>
    /\ UnchangedByMonitor

NextMonitor ==
    \/ \E interval \in {1, 2}, count \in 0..MaxCount : MonitorStart(interval, count)
    \/ Tick
    \/ Sigint
    \/ Exit

\* an active interval timer fires again and again
SpecMonitor == InitMonitor /\ [][NextMonitor]_vars /\ WF_vars(Tick) /\ WF_vars(Exit)

(***************************************************************************)
(* Two invocations of config commands that run at the same time, each a    *)
(* process of its own (src/src/commands/config.ts).  A handler awaits      *)
(* loadConfig, then a prompt or the spinner, then saveConfig: between its  *)
(* load and its save the other process can take steps.  procs[p].config is *)
(* the document process p loaded.  seen and rank observe the order of the  *)
(* steps: how many saves were done when p loaded, and the place of p's     *)
(* save among the saves.                                                   *)
(***************************************************************************)
Procs == {1, 2}
RaceKeys == {"theme", "maxItems", "customKey"}
RaceValues == {"dark", "150"}
RaceImports ==
    {Doc([language |-> StrV("fr"), debug |-> BoolV(TRUE)]),
     Doc([customKey |-> StrV("x"), maxItems |-> FracV(1, 5)])}

NotRunning ==
    [pc |-> "idle", cmd |-> "", key |-> "", value |-> UndefinedV, src |-> Missing,
     config |-> EmptyObj, seen |-> 0, rank |-> 0]

SavesDone == Cardinality({q \in Procs : procs[q].rank > 0})

InitRace ==
    /\ file \in {Missing, Corrupt} \cup StoredDocs
    /\ procs = [p \in Procs |-> NotRunning]
    /\ exportFile = Missing
    /\ out = Idle
    /\ ops = 0
    /\ vin = NoInput
    /\ vout = Invalid("")
    /\ users = << >>
    /\ tasks = << >>
    /\ disk = << >>
    /\ profiles = << >>
    /\ monitor = << >>

UnchangedByRace == UNCHANGED <<exportFile, vin, vout, users, tasks, disk, profiles, monitor>>

\* config set <key> <value> [--force] up to the await of saveConfig
SetLoads(p, key, value, force) ==
    LET config == loadConfig(file)
        validation == validateConfigValue(key, StrV(value))
        stored == IF force THEN StrV(value) ELSE validation.value
        rejected == SetRejected(force, validation)
    IN  /\ procs[p].pc = "idle"
        /\ ops < MaxOps
        /\ ops' = ops + 1
        /\ procs' = [procs EXCEPT ![p] =
                        [pc |-> IF rejected THEN "done" ELSE "loaded", cmd |-> "set",
                         key |-> key, value |-> stored, src |-> Missing,
                         config |-> config, seen |-> SavesDone, rank |-> 0]]
        /\ out' = IF rejected
                  THEN [Report("set", "validation-error")
                          EXCEPT !.key = key, !.raw = StrV(value), !.force = force,
                                 !.errors = {validation.message}]
                  ELSE out
        /\ file' = file
        /\ UnchangedByRace

\* config import <filename> --merge of a file that passes the validation,
\* up to the confirmation prompt
ImportLoads(p, src) ==
    /\ procs[p].pc = "idle"
    /\ ops < MaxOps
    /\ ops' = ops + 1
    /\ ~ImportAborted(ValidationErrors(OwnMembers(src)), FALSE)
    /\ procs' = [procs EXCEPT ![p] =
                    [pc |-> "loaded", cmd |-> "import", key |-> "", value |-> UndefinedV,
                     src |-> src, config |-> loadConfig(file),
                     seen |-> SavesDone, rank |-> 0]]
    /\ UNCHANGED <<file, out>>
    /\ UnchangedByRace

\* a handler that loads again before it saves
SavedFrom_Reloaded(p) == loadConfig(file)

\* the document a handler changes and saves: the one it loaded
SavedFrom(p) == procs[p].config

\* what process p hands to fs.writeFile
Written(p) ==
    IF procs[p].cmd = "set"
    THEN saveConfig(Assign(SavedFrom(p), procs[p].key, procs[p].value))
    ELSE FinalConfig(procs[p].src, TRUE, SavedFrom(p))

\* the keys process p changes
Touched(p) ==
    IF procs[p].cmd = "set" THEN {procs[p].key} ELSE DOMAIN OwnMembers(procs[p].src)

\* saveConfig of a process that has loaded, and its success report
Saves(p) ==
    /\ procs[p].pc = "loaded"
    /\ file' = Written(p)
    /\ procs' = [procs EXCEPT ![p].pc = "done", ![p].rank = SavesDone + 1]
    /\ out' = IF procs[p].cmd = "set"
              THEN [Report("set", "ok")
                      EXCEPT !.key = procs[p].key,
                             !.oldValue = Lookup(procs[p].config, procs[p].key),
                             !.newValue = procs[p].value, !.wrote = TRUE]
              ELSE [Report("import", "ok")
                      EXCEPT !.source = procs[p].src, !.merge = TRUE, !.confirm = TRUE,
                             !.imported = KeysImported(OwnMembers(procs[p].src)),
                             !.total = Cardinality(DOMAIN OwnMembers(Written(p))),
                             !.wrote = TRUE]
    /\ ops' = ops
    /\ UnchangedByRace

NextRace ==
    \/ \E p \in Procs, key \in RaceKeys, value \in RaceValues, force \in BOOLEAN :
          SetLoads(p, key, value, force)
    \/ \E p \in Procs, src \in RaceImports : ImportLoads(p, src)
    \/ \E p \in Procs : Saves(p)

SpecRace == InitRace /\ [][NextRace]_vars

(***************************************************************************)
(* Properties.                                                             *)
(***************************************************************************)
\* the value a document holds under a key itself, undefined when it has none
Own(o, k) == IF k \in DOMAIN o THEN o[k] ELSE UndefinedV

\* every schema key is present and its value passes validateConfigValue
DocValid(o) ==
    \A k \in SchemaKeys : k \in DOMAIN o /\ validateConfigValue(k, o[k]).valid

\* C1 (defaulting invariant): when config.json holds values for exactly the
\* keys of a subset S of the schema keys, the document get and list load has
\* a value for each of the ten schema keys and no other, the stored value
\* for the keys in S and the schema default for the others.
C1_Defaulting ==
    (out.cmd \in {"get", "list"} /\ file.kind = "object" /\ DOMAIN file.obj \subseteq SchemaKeys)
        => /\ DOMAIN out.doc = SchemaKeys
           /\ \A k \in SchemaKeys :
                 out.doc[k] = IF k \in DOMAIN file.obj THEN file.obj[k]
                              ELSE DEFAULT_CONFIG[k]

C1_Witness ==
    /\ out.cmd = "get"
    /\ file.kind = "object"
    /\ DOMAIN file.obj = {"theme", "maxItems", "debug"}
    /\ out.doc.theme = StrV("rainbow")
    /\ out.doc.language = StrV("en")

C3_MergeVsReplace ==
    [][(out'.cmd = "import" /\ out'.wrote /\ out'.source.kind = "object")
       => LET M == out'.source.obj
              C == loadConfig(file)
              N == loadConfig(file')
          IN  \A k \in AllKeys :
                 Own(N, k) = IF k \in DOMAIN M THEN M[k]
                             ELSE IF out'.merge THEN Own(C, k)
                             ELSE Own(DEFAULT_CONFIG, k)]_vars

C3_Witness ==
    /\ out.cmd = "import" /\ out.wrote /\ out.merge
    /\ out.source.kind = "object"
    /\ \E k \in SchemaKeys \ DOMAIN out.source.obj :
          loadConfig(file)[k] # DEFAULT_CONFIG[k]
    /\ \E k \in SchemaKeys \cap DOMAIN out.source.obj :
          loadConfig(file)[k] # DEFAULT_CONFIG[k]

\* C4 (atomicity of aborted import): an import without --force whose file
\* has at least one member that fails validation is aborted, in merge and in
\* replace mode: it reports the validation errors, writes nothing, and
\* config.json is what it was before the command.
C4_AbortedImportAtomic ==
    [][(/\ out'.cmd = "import" /\ ~out'.force
        /\ \E k \in DOMAIN OwnMembers(out'.source) :
              ~validateConfigValue(k, out'.source.obj[k]).valid)
       => (out'.status = "validation-error" /\ ~out'.wrote /\ file' = file)]_vars

C4_Witness ==
    /\ out.cmd = "import" /\ out.status = "validation-error"
    /\ ~out.force /\ out.merge
    /\ out.errors = {"colorOutput: Must be true or false"}
    /\ file.kind = "object"

\* C5 (document validity invariant): after any sequence of set, reset,
\* import and setup commands, every value of the loaded configuration
\* document satisfies the validator of its key.
C5_DocumentValid == DocValid(loadConfig(file))

\* C6 (closed schema): an attempt to set a key outside the ten schema keys
\* is a validation error, and after any sequence of config commands the keys
\* of the configuration document are exactly the ten schema keys.
C6_ClosedSchema ==
    /\ (out.cmd = "set" /\ out.key \notin SchemaKeys) => out.status = "validation-error"
    /\ DOMAIN loadConfig(file) = SchemaKeys

\* the keys of a document whose value differs from the schema default
ModifiedKeys(o) == {k \in DOMAIN o : o[k] # Own(DEFAULT_CONFIG, k)}

\* C7 (modified-only export): an export asked for in modified-only mode
\* writes a file that holds exactly the keys whose value differs from the
\* schema default, none when the document equals the defaults.
C7_ModifiedOnlyExport ==
    (out.cmd = "export" /\ out.modified)
        => /\ exportFile.kind = "object"
           /\ DOMAIN exportFile.obj = ModifiedKeys(loadConfig(file))

\* the rule of each schema key, as the configuration reference states it
KeyRule(key, v) ==
    CASE key = "theme" -> v.t = "string" /\ v.s \in {"default", "dark", "light", "rainbow"}
      [] key = "dateFormat" -> v.t = "string" /\ v.s \in {"locale", "iso", "us", "eu"}
      [] key = "defaultPriority" ->
            v.t = "string" /\ v.s \in {"low", "medium", "high", "urgent"}
      [] key = "language" -> v.t = "string" /\ v.s \in {"en", "es", "fr", "de", "it"}
      [] key \in {"colorOutput", "autoSave", "debug"} -> v.t = "boolean"
      [] key = "maxItems" ->
            v.t = "number" /\ v.s = "" /\ v.d = 0 /\ v.n >= 1 /\ v.n <= MaxItemsLimit
      [] key = "timeout" -> v.t = "number" /\ v.s = "" /\ v.d = 0 /\ v.n > 0
      [] key = "apiUrl" -> v.t = "string" /\ v.s # ""

\* the string passes the numeric test of the conversion
NumericString(v) ==
    /\ v.t = "string" /\ v.s \notin {"true", "false"}
    /\ ~NumberIsNaN(v.s) /\ ~ParseFloatIsNaN(v.s)

\* C8 (Validate): a key outside the schema gives an unknown-key error for
\* every value; for a schema key the raw value is coerced first ("true" and
\* "false" to booleans, a numeric string to an integer, anything else kept)
\* and the result is valid with the coerced value exactly when the coerced
\* value satisfies the rule of the key, and otherwise an error that carries
\* the suggestion of the key.
C8_ValidateContract ==
    ops = 1 =>
        LET key == vin.key
            raw == vin.value
            coerced == ConvertValue(raw)
        IN  /\ key \notin SchemaKeys
                  => vout = Invalid("Unknown configuration key: " \o key)
            /\ raw = StrV("true") => coerced = BoolV(TRUE)
            /\ raw = StrV("false") => coerced = BoolV(FALSE)
            /\ NumericString(raw) => NumberIsInteger(coerced)
            /\ (raw.t # "string" \/ (raw.s \notin {"true", "false"} /\ ~NumericString(raw)))
                  => coerced = raw
            /\ key \in SchemaKeys
                  => vout = IF KeyRule(key, coerced) THEN Valid(coerced)
                            ELSE Invalid(suggestions[key])

\* C9 (successful set): when a set without --force passes validation, the
\* document loaded afterwards equals the document loaded before except that
\* the key maps to the coerced value, and the old value the command reports
\* is the value the key had in the document before.
C9_SuccessfulSet ==
    [][(/\ out'.cmd = "set" /\ ~out'.force
        /\ validateConfigValue(out'.key, out'.raw).valid)
       => LET D == loadConfig(file)
              N == loadConfig(file')
              coerced == validateConfigValue(out'.key, out'.raw).value
          IN  /\ out'.status = "ok" /\ out'.wrote
              /\ out'.newValue = coerced
              /\ out'.oldValue = Own(D, out'.key)
              /\ \A k \in AllKeys :
                    Own(N, k) = IF k = out'.key THEN coerced ELSE Own(D, k)]_vars

DeclaredType(k) ==
    IF k \in {"colorOutput", "autoSave", "debug"} THEN "boolean"
    ELSE IF k \in {"maxItems", "timeout"} THEN "number"
    ELSE "string"

\* every schema key config.json holds has a value of the type the schema
\* declares for it
FileTyped(f) ==
    \A k \in SchemaKeys \cap DOMAIN OwnMembers(f) :
        OwnMembers(f)[k].t = DeclaredType(k)

\* C11 (persisted values keep their declared type): a set or an import
\* without --force, run on a config.json whose values all have the declared
\* type of their key, leaves a config.json whose values all have the
\* declared type of their key; no numeric or boolean key is left holding a
\* string such as "150" or "true".
C11_PersistedTypes ==
    [][(/\ FileTyped(file)
        /\ out'.cmd \in {"set", "import"} /\ ~out'.force)
       => FileTyped(file')]_vars

\* the part of C11 that is about set alone
C11_SetKeepsTypes ==
    [][(FileTyped(file) /\ out'.cmd = "set" /\ ~out'.force)
       => FileTyped(file')]_vars

\* the part of C12 that is about the keys of the schema
C12_ResetSchemaKey ==
    [][(/\ out'.cmd = "reset" /\ out'.key \in SchemaKeys
        /\ (out'.force \/ out'.confirm))
       => LET D == loadConfig(file)
              N == loadConfig(file')
          IN  /\ out'.status = "ok" /\ out'.wrote
              /\ out'.oldValue = Own(D, out'.key)
              /\ \A k \in AllKeys :
                    Own(N, k) = IF k = out'.key THEN DEFAULT_CONFIG[k]
                                ELSE Own(D, k)]_vars

\* C12 (reset of one key): a confirmed or forced reset of a schema key
\* reports the old value of the key and leaves a document that maps the key
\* to its default and every other key to what it was; a reset of a key
\* that is not in the schema reports an unknown-key error and config.json
\* is what it was before the command.
C12_ResetKey ==
    [][(out'.cmd = "reset" /\ out'.key # "")
       => LET D == loadConfig(file)
              N == loadConfig(file')
          IN  /\ (out'.key \in SchemaKeys /\ (out'.force \/ out'.confirm))
                    => /\ out'.status = "ok" /\ out'.wrote
                       /\ out'.oldValue = Own(D, out'.key)
                       /\ \A k \in AllKeys :
                             Own(N, k) = IF k = out'.key THEN DEFAULT_CONFIG[k]
                                         ELSE Own(D, k)
              /\ out'.key \notin SchemaKeys
                    => /\ out'.status = "unknown-key"
                       /\ ~out'.wrote
                       /\ file' = file]_vars

\* C13 (reset of everything): after a confirmed or forced reset without
\* --key, config.json holds exactly the ten defaults, whatever it held
\* before (members outside the schema are gone), and the document loaded
\* from it is DEFAULT_CONFIG.
C13_ResetAll ==
    [][(/\ out'.cmd = "reset" /\ out'.key = ""
        /\ (out'.force \/ out'.confirm))
       => (/\ out'.status = "ok" /\ out'.wrote
           /\ file' = JsonObject(DEFAULT_CONFIG)
           /\ loadConfig(file') = DEFAULT_CONFIG)]_vars

C13_Witness ==
    /\ out.cmd = "reset" /\ out.key = "" /\ out.status = "ok" /\ out.wrote
    /\ ops = 2
    /\ file = JsonObject(DEFAULT_CONFIG)

\* C14 (confirmation gate on reset): a reset without --force, of one key or
\* of everything, writes only after the prompt was answered yes; when the
\* answer is no, nothing is written and config.json is what it was before
\* the command.
C14_ResetGate ==
    [][(out'.cmd = "reset" /\ ~out'.force)
       => (/\ out'.wrote => out'.confirm
           /\ ~out'.confirm
                 => (/\ out'.status \in {"cancelled", "unknown-key"}
                     /\ ~out'.wrote
                     /\ file' = file))]_vars

C14_Witness ==
    /\ out.cmd = "reset" /\ out.status = "cancelled"
    /\ ~out.force /\ ~out.confirm /\ ~out.wrote
    /\ out.key \in {"", "theme"}
    /\ file.kind = "object" /\ file # JsonObject(DEFAULT_CONFIG)

\* the positions of the members of the parsed file that fail validation
FailingAt(entries) ==
    {i \in 1..Len(entries) :
        ~validateConfigValue(entries[i].key, entries[i].value).valid}

\* the positions of the entries of the error list that are about a key
ErrorsAbout(errors, key) ==
    {j \in 1..Len(errors) : StartsWith(errors[j], key \o ": ")}

\* C15 (import validates every key): the error list import collects has
\* exactly one entry for each member of the import file whose value fails
\* validateConfigValue, the key followed by the message of the validation,
\* wherever the member stands in the file, and no entry for a member that
\* passes; the set the import command works with holds the same entries.
C15_EveryKeyValidated ==
    ops = 1 =>
        /\ Len(vout) = Cardinality(FailingAt(vin))
        /\ \A i \in 1..Len(vin) :
              LET validation == validateConfigValue(vin[i].key, vin[i].value)
                  about == ErrorsAbout(vout, vin[i].key)
              IN  IF i \in FailingAt(vin)
                  THEN /\ Cardinality(about) = 1
                       /\ \A j \in about :
                             vout[j] = vin[i].key \o ": " \o validation.message
                  ELSE about = {}
        /\ {vout[j] : j \in 1..Len(vout)} = ValidationErrors(FromEntries(vin))

C15_Witness ==
    /\ ops = 1
    /\ Len(vin) = 3
    /\ FailingAt(vin) = {2, 3}
    /\ vin[1].key = "maxItems" /\ vin[3].key = "theme"
    /\ Len(vout) = 2

\* C16 (import reports): an import that completes reports the number of
\* keys it applied and the list of the validation errors it met, and the
\* list is reported as well when --force carried the import through them.
C16_ImportReports ==
    (out.cmd = "import" /\ out.status = "ok" /\ out.wrote)
       => (/\ out.imported = Cardinality(DOMAIN OwnMembers(out.source))
           /\ out.errors = ValidationErrors(OwnMembers(out.source)))

\* C16 as the code has it: an import that completes reports the number of
\* members of the import file, failing ones included, as the keys imported
\* and the number of members of the written document as the total, and no
\* validation error (with --force the errors are dropped unreported); the
\* list of validation errors is reported when the import stops on them.
C16_ImportReportsCount ==
    /\ (out.cmd = "import" /\ out.status = "ok")
          => (/\ out.wrote
              /\ out.imported = Cardinality(DOMAIN OwnMembers(out.source))
              /\ out.total = Cardinality(DOMAIN OwnMembers(file))
              /\ out.errors = {})
    /\ (out.cmd = "import" /\ out.status = "validation-error")
          => (/\ ~out.wrote /\ ~out.force
              /\ out.errors = ValidationErrors(OwnMembers(out.source))
              /\ out.errors # {})

C16_Witness ==
    /\ out.cmd = "import" /\ out.status = "ok" /\ out.force /\ out.wrote
    /\ ValidationErrors(OwnMembers(out.source)) # {}
    /\ out.imported = 2
    /\ out.errors = {}

\* C17 (closed key space on read): in every reachable state, whether or not
\* --force was used before, a get of one key reports that the key was not
\* found exactly when the key is not one of the ten schema keys; it
\* succeeds for each schema key and fails for every other key.
C17_ClosedKeySpace ==
    (out.cmd = "get" /\ out.key # "")
       => (out.status = "not-found" <=> out.key \notin SchemaKeys)

\* the part of C17 that is about the keys of the schema
C17_SchemaKeysFound ==
    (out.cmd = "get" /\ out.key \in SchemaKeys)
       => (out.status = "ok" /\ out.newValue = out.doc[out.key])

\* C18 (exit status of failures): a config command that ends in a
\* validation error or a not-found error (set of an invalid value or of an
\* unknown key, get or reset of an unknown key, import with validation
\* errors and no --force) ends its process with a non-zero exit status.
C18_ExitStatus ==
    (/\ out.cmd \in {"set", "get", "reset", "import"}
     /\ out.status \in {"validation-error", "not-found", "unknown-key"})
       => out.exitCode # 0

\* C19 (load never blocks): when config.json is missing, unreadable or not
\* parseable, get and list work on the full default document and report no
\* error, every schema key being found with its default; and get and list
\* never write: config.json is after the command what it was before.
C19_LoadNeverBlocks ==
    [][(out'.cmd \in {"get", "list"})
       => (/\ file' = file
           /\ ~out'.wrote
           /\ ReadThrows(file)
                 => (/\ out'.doc = DEFAULT_CONFIG
                     /\ out'.status \in {"ok", "not-found"}
                     /\ out'.key \in SchemaKeys
                           => (/\ out'.status = "ok"
                               /\ out'.newValue = DEFAULT_CONFIG[out'.key])))]_vars

C19_Witness ==
    /\ file = Corrupt
    /\ out.cmd = "get" /\ out.key = "maxItems" /\ out.status = "ok"
    /\ out.doc = DEFAULT_CONFIG
    /\ out.newValue = NumV(100)

\* the keys a successful mutation reported by r gives a value to: the key
\* of a set or of a reset of one key, the members of the import file for a
\* merge, and every key for a reset of everything or a replacing import
Affects(r, k) ==
    CASE r.cmd = "set" -> k = r.key
      [] r.cmd = "reset" -> r.key = "" \/ k = r.key
      [] r.cmd = "import" -> ~r.merge \/ k \in DOMAIN OwnMembers(r.source)
      [] OTHER -> FALSE

\* the value it gives to such a key
Gives(r, k) ==
    CASE r.cmd = "set" -> r.newValue
      [] r.cmd = "reset" -> Lookup(DEFAULT_CONFIG, k)
      [] r.cmd = "import" ->
            IF k \in DOMAIN OwnMembers(r.source) THEN OwnMembers(r.source)[k]
            ELSE Own(DEFAULT_CONFIG, k)
      [] OTHER -> UndefinedV

\* one step of last-mutation-wins for the keys in K: after a set, reset or
\* import that succeeded, the loaded document maps each key the mutation
\* affected to the value it gave and every other key to what it was; after
\* one that did not succeed, config.json is what it was
LastWins(K) ==
    (out'.cmd \in {"set", "reset", "import"})
       => LET D == loadConfig(file)
              N == loadConfig(file')
          IN  IF out'.wrote
              THEN \A k \in K :
                      Own(N, k) = IF Affects(out', k) THEN Gives(out', k)
                                  ELSE Own(D, k)
              ELSE file' = file

\* C20 (last mutation wins): set, reset and import run one after the other
\* and each writes config.json before it returns, so at every step the
\* document loaded afterwards maps every key to the value given by the
\* successful mutation just run if that affected the key, and otherwise to
\* the value it had before; along any sequence every key thus holds the
\* value of the last successful mutation that affected it, or its initial
\* value.
C20_LastMutationWins == [][LastWins(AllKeys)]_vars

\* C20 for the schema keys and for customKey, a key no object inherits
C20_LastMutationWinsOwnKeys ==
    [][out'.key # "constructor" => LastWins(AllKeys \ InheritedKeys)]_vars

\* C21 (storage write failure): when saveConfig fails inside a set, a reset
\* or an import, that command reports an error and not a success, the
\* process does not crash, and the document config.json holds is the one it
\* held before the command; a command run afterwards loads and works as
\* usual.
C21_WriteFailure ==
    [][/\ (out'.cmd \in {"set", "reset", "import"} /\ out'.status = "write-error")
            => (/\ ~out'.wrote
                /\ out'.exitCode = 0
                /\ loadConfig(file') = loadConfig(file))
       /\ (out.status = "write-error" /\ out'.cmd \in {"get", "list"})
            => (/\ file' = file
                /\ \A k \in SchemaKeys : k \in DOMAIN out'.doc)]_vars

\* the parts of C21 that do not depend on what writeFile leaves behind
C21_ReportedAndRecovers ==
    [][/\ (out'.cmd \in {"set", "reset", "import"} /\ out'.status = "write-error")
            => (~out'.wrote /\ out'.exitCode = 0)
       /\ (out.status = "write-error" /\ out'.cmd \in {"get", "list"})
            => (/\ file' = file
                /\ \A k \in SchemaKeys : k \in DOMAIN out'.doc)]_vars

\* no two stored users have the same email address
EmailsUnique(arr) ==
    \A i, j \in 1..Len(arr) : arr[i].email = arr[j].email => i = j

\* C28 (unique user emails): starting from an empty users.json, after any
\* sequence of user add, update, delete and clear no two stored users have
\* the same email address; a user add with an email that is already stored
\* is rejected and leaves users.json as it was.
C28_UniqueEmails ==
    /\ EmailsUnique(users)
    /\ out.status = "duplicate" => ~out.wrote

\* the part of C28 that is about add, delete and clear
C28_AddKeepsEmailsUnique ==
    [][(EmailsUnique(users) /\ out'.cmd # "user update")
       => (/\ EmailsUnique(users')
           /\ (out'.cmd = "user add" /\ EmailTaken(users, out'.raw.s))
                 => (users' = users /\ ~out'.wrote))]_vars

\* C29 (task enums): starting from an empty tasks.json, after any sequence
\* of task add, update, complete, delete and clear-completed every stored
\* task has a priority in PRIORITIES and a status in STATUSES; the task an
\* add appends is pending; and an add or an update given a priority or a
\* status outside these sets is rejected and writes nothing.
C29_TaskEnums ==
    /\ \A i \in 1..Len(tasks) :
          tasks[i].priority \in PRIORITIES /\ tasks[i].status \in STATUSES
    /\ (out.cmd = "task add" /\ out.wrote)
          => tasks[Len(tasks)] = [id |-> out.key, priority |-> out.raw.s,
                                  status |-> "pending", completedAt |-> ""]
    /\ (out.cmd = "task add" /\ out.raw.s \notin PRIORITIES)
          => (out.status = "validation-error" /\ ~out.wrote)
    /\ (/\ out.cmd = "task update" /\ out.status # "not-found"
        /\ \/ out.newValue.s \notin PRIORITIES \cup {""}
           \/ out.raw.s \notin STATUSES \cup {""})
          => (out.status = "validation-error" /\ ~out.wrote)

C29_Witness ==
    /\ out.cmd = "task update" /\ out.status = "validation-error"
    /\ out.raw.s = "done" /\ out.key = "t1"
    /\ Len(tasks) = 1
    /\ tasks[1] = [id |-> "t1", priority |-> "low", status |-> "completed",
                   completedAt |-> Now]

\* a task has a completedAt exactly when its status is completed
CompletedAtMatches(arr) ==
    \A i \in 1..Len(arr) : arr[i].completedAt # "" <=> arr[i].status = "completed"

\* C30 (completion bookkeeping): starting from an empty tasks.json, after
\* any sequence of task add, complete and update a stored task has a
\* completedAt exactly when its status is completed; task complete on a task
\* that is completed already changes nothing; and clear-completed removes
\* exactly the completed tasks and keeps the others in their order.
C30_CompletionBookkeeping ==
    [][/\ CompletedAtMatches(tasks')
       /\ out'.status = "already-completed" => (tasks' = tasks /\ ~out'.wrote)
       /\ (out'.cmd = "task clear-completed" /\ out'.wrote)
             => tasks' = SelectSeq(tasks, LAMBDA task : task.status # "completed")]_vars

\* the parts of C30 that are about complete and clear-completed, and the
\* half of the equivalence that update keeps
C30_CompleteAndClear ==
    [][/\ \A i \in 1..Len(tasks') :
             tasks'[i].status = "completed" => tasks'[i].completedAt # ""
       /\ out'.status = "already-completed" => (tasks' = tasks /\ ~out'.wrote)
       /\ (out'.cmd = "task clear-completed" /\ out'.wrote)
             => tasks' = SelectSeq(tasks, LAMBDA task : task.status # "completed")]_vars

\* C25 (file commands are confined to demo-files): for every filename
\* argument, every path a file command (create, read, list, delete, copy)
\* reads, writes or deletes lies inside the demo-files directory.
C25_ConfinedToDemoFiles ==
    (out.cmd \in {"file create", "file read", "file list", "file delete", "file copy"})
       => \A path \in out.paths : IsPrefix(demoDir, path)

\* C25 for create, read, list and delete with a name that has no ".."
\* segment and does not start at the root
C25_PlainNamesConfined ==
    (/\ out.cmd \in {"file create", "file read", "file list", "file delete"}
     /\ ~StartsWith(out.key, "/")
     /\ \A i \in 1..Len(SplitPath(out.key)) : SplitPath(out.key)[i] # "..")
       => \A path \in out.paths : IsPrefix(demoDir, path)

\* C23 (profiles persist between commands): when profile create <name> has
\* completed with the save operation, the next invocation of profile view,
\* update or delete with that name in any letter case finds the profile,
\* and the next profile list is not empty.
C23_ProfilesPersist ==
    [][(out.cmd = "profile create" /\ out.wrote)
         => /\ (/\ out'.cmd \in {"profile view", "profile update", "profile delete"}
                /\ toLowerCase(out'.key) = toLowerCase(out.key))
                  => out'.status # "not-found"
            /\ out'.cmd = "profile list" => out'.status # "empty"]_vars

\* what the profile commands do instead: no lookup ever finds a profile
C23_NothingFound ==
    /\ out.cmd \in {"profile view", "profile update", "profile delete"}
         => out.status = "not-found"
    /\ out.cmd = "profile list" => out.status = "empty"

\* C22 (destructive operations are gated by confirmation): user delete,
\* user clear, task delete, task clear-completed, file delete and profile
\* delete, run without --force, delete nothing unless the prompt was
\* answered with yes: when it was declined, users, tasks, the files on disk
\* and the profile map are what they were, and a target that exists gives
\* the report of a cancelled command.
C22_ConfirmationGate ==
    [][(out'.cmd \in DestructiveCommands /\ ~out'.force /\ ~out'.confirm)
         => /\ users' = users /\ tasks' = tasks /\ disk' = disk /\ profiles' = profiles
            /\ ~out'.wrote
            /\ out'.status \in {"cancelled", "not-found", "nothing-to-do", "error"}]_vars

\* a declined user delete after a confirmed task delete and a forced file
\* delete: both users are still there
C22_Witness ==
    /\ out.cmd = "user delete" /\ out.status = "cancelled" /\ ~out.force
    /\ Len(users) = 2
    /\ Len(tasks) = 1
    /\ Append(demoDir, "a.txt") \notin DOMAIN disk

\* the facts of a monitoring process with --count N that hold at any moment
MonitorBounded(m) ==
    /\ m.count >= 1 => m.sampleCount <= m.count
    /\ m.completed <=> (m.count >= 1 /\ m.sampleCount = m.count)
    /\ m.completed => ~m.timer
    /\ (m.phase # "idle" /\ ~m.timer /\ ~m.completed) => m.stopped
    /\ (m.count = 0 /\ m.phase = "exited") => m.stopped

\* C24 (bounded monitoring): system monitor --count N with N >= 1 never
\* emits more than N samples, cancels its timer and reports completion
\* exactly when the N-th sample is out, and emits no sample after the timer
\* is cancelled; a timer that runs leads to the completion or to the stop
\* by SIGINT; without --count only SIGINT cancels the timer and ends the
\* process.
C24_BoundedMonitoring ==
    /\ [][/\ MonitorBounded(monitor')
          /\ (~monitor.timer /\ ops' = ops) => monitor'.sampleCount = monitor.sampleCount]_vars
    /\ (monitor.timer /\ monitor.count >= 1) ~> (monitor.completed \/ monitor.stopped)

\* a run with --count 3 that has reported completion after three samples
C24_Witness ==
    /\ monitor.count = 3 /\ monitor.sampleCount = 3
    /\ monitor.completed /\ ~monitor.timer /\ ~monitor.stopped
    /\ monitor.phase = "exited"

\* both processes have saved, and both had loaded before either saved
Overlapped ==
    /\ \A p \in Procs : procs[p].pc = "done" /\ procs[p].rank > 0
    /\ \A p \in Procs : procs[p].seen = 0

\* C26 (no locking across invocations): when two mutating invocations
\* overlap so that both load before either saves, the document persisted
\* last is the last saver's stale load with its own change, and every key
\* only the other invocation changed has the value of the stale load: the
\* other's change is lost, also when the two touch different keys.
C26_LostUpdate ==
    Overlapped =>
      \A last, first \in Procs :
        (procs[last].rank = 2 /\ procs[first].rank = 1)
          => /\ file = Written(last)
             /\ procs[last].config = procs[first].config
             /\ \A k \in Touched(first) \ Touched(last) :
                   /\ HasKey(loadConfig(file), k) = HasKey(procs[last].config, k)
                   /\ Lookup(loadConfig(file), k) = Lookup(procs[last].config, k)

\* set theme dark and set maxItems 150 overlap on a document without
\* either value: the last save (maxItems) leaves the theme as it was
C26_Witness ==
    /\ Overlapped
    /\ procs[1].cmd = "set" /\ procs[1].key = "theme" /\ procs[1].rank = 1
    /\ procs[2].cmd = "set" /\ procs[2].key = "maxItems" /\ procs[2].rank = 2
    /\ Lookup(loadConfig(file), "theme") # procs[1].value
    /\ Lookup(loadConfig(file), "maxItems") = procs[2].value

\* C27 (import force covers both gates): a config import without --force
\* writes only when the file has no validation error and the prompt was
\* answered with yes, and otherwise leaves config.json as it is; with
\* --force an import file that parses to a value other than null is
\* written without a prompt as the candidate document (the file spread
\* over the loaded document with --merge, else the file alone), validation
\* errors or not.
C27_ImportGates ==
    [][out'.cmd = "import"
         => /\ (~out'.force /\ out'.wrote)
                  => /\ out'.confirm
                     /\ ValidationErrors(OwnMembers(out'.source)) = {}
            /\ ~out'.wrote => file' = file
            /\ out'.force => (~out'.confirm /\ out'.status # "cancelled"
                                /\ out'.status # "validation-error")
            /\ (out'.force /\ out'.source.kind \in {"object", "scalar"})
                  => /\ out'.wrote
                     /\ file' = FinalConfig(out'.source, out'.merge, loadConfig(file))]_vars

\* a forced merge import of a file with a validation error, written over a
\* stored document
C27_Witness ==
    /\ out.cmd = "import" /\ out.force /\ out.merge /\ out.wrote
    /\ ValidationErrors(OwnMembers(out.source)) # {}
    /\ file.kind = "object"
    /\ \E k \in DOMAIN OwnMembers(out.source) :
          ~validateConfigValue(k, OwnMembers(out.source)[k]).valid /\ k \in DOMAIN file.obj

====
